---- MODULE Spec2Model ----
(***************************************************************************)
(* The Intcode interpreter of day07 (IntMachine, with parameter modes,     *)
(* input/output and break_at_output) as a state machine.                   *)
(*                                                                         *)
(* Memory addresses are zero-based as in the source: cell a of a machine   *)
(* is ram[a + 1].  One Step is one iteration of the loop of                *)
(* IntMachine::run (decode, then execute).  A panic of the Rust code       *)
(* (unimplemented!(), Vec::remove on an empty vector) aborts the process:  *)
(* it is the outcome "Panic" and nothing runs after it.                    *)
(*                                                                         *)
(* Cell values stay far inside the i64 range in every behaviour of the     *)
(* model, so + and * never overflow.  usize values of 2^63 and more only   *)
(* arise from casting a negative i64; they are kept modulo 10^9 (see       *)
(* Two64).                                                                 *)
(***************************************************************************)
EXTENDS Integers, Sequences, FiniteSets, TLC

VARIABLES
    machines,   \* instance id -> [ip, ram, output_values]   (struct IntMachine)
    frames,     \* instance id -> the run call in progress: its arguments
    rets,       \* instance id -> what the last run call returned
    lasts,      \* instance id -> record of the last loop iteration (history)
    pending,    \* instance id -> history: inputs passed and not yet read,
                \*   kept over a call that returned Output
    ncalls,     \* instance id -> number of run calls made so far
    collected,  \* instance id -> history: values of the Output returns so far
    aborted,    \* TRUE once the process has panicked
    decoded,    \* instance id -> history: the decoder calls made on the
                \*   instance outside run (SpecDecode only)
    code,       \* the program image of the caller, cloned into every instance
    job         \* the call of run_amplificator_job in progress (SpecAmp only)

vars ==
    <<machines, frames, rets, lasts, pending, ncalls, collected, aborted,
      decoded, code, job>>

-----------------------------------------------------------------------------
(* Integer conversions *)

\* 2^64 modulo 10^9.  (v as usize) for a negative i64 v is v + 2^64; the
\* model keeps such a value as v + Two64, which has the same nine low decimal
\* digits and is larger than any memory length of the model.
Two64 == 709551616

AsUsize(v) == IF v < 0 THEN v + Two64 ELSE v

Pow10(n) ==
    CASE n = 0 -> 1
      [] n = 1 -> 10
      [] n = 2 -> 100
      [] n = 3 -> 1000
      [] n = 4 -> 10000
      [] OTHER -> 100000

Min(S) == CHOOSE x \in S : \A y \in S : x <= y

-----------------------------------------------------------------------------
(* Result values *)

OutOfBound(position) == [kind |-> "OutOfBound", arg |-> position]
InvalidInstruction(opcode) == [kind |-> "InvalidInstruction", arg |-> opcode]
Exiting == [kind |-> "Exiting", arg |-> 0]

ResOk(v) == [tag |-> "Ok", val |-> v, err |-> Exiting]
ResErr(e) == [tag |-> "Err", val |-> 0, err |-> e]
ResPanic == [tag |-> "Panic", val |-> 0, err |-> Exiting]

\* What a run call hands back.  val is always a sequence: the one value of
\* Output(v), the vector of Exit(..), the usize of an error.
RetNone == [kind |-> "None", val |-> <<>>]
RetOutput(v) == [kind |-> "Output", val |-> <<v>>]
RetExit(vec) == [kind |-> "Exit", val |-> vec]
RetErr(e) == [kind |-> e.kind, val |-> <<e.arg>>]
RetPanic == [kind |-> "Panic", val |-> <<>>]

-----------------------------------------------------------------------------
(* Decoder *)

\* Mutant: the digits are counted from the ten-thousands place downwards.
ParameterMode_from_opcode_msd(opcode, position) ==
    LET raw_mode == (opcode \div Pow10(4 - position)) % 10
    IN  CASE raw_mode = 0 -> "Position"
          [] raw_mode = 1 -> "Immediate"
          [] OTHER -> "unimplemented"

ParameterMode_from_opcode(opcode, position) ==
    LET raw_mode == (opcode \div Pow10(position + 2)) % 10
    IN  CASE raw_mode = 0 -> "Position"
          [] raw_mode = 1 -> "Immediate"
          [] OTHER -> "unimplemented"

\* Mutant: the error carries the low two digits only.
InstructionType_from_opcode_low(opcode) ==
    LET low == opcode % 100
    IN  CASE low = 1 -> ResOk("Addition")
          [] low = 2 -> ResOk("Multiplication")
          [] low = 3 -> ResOk("Input")
          [] low = 4 -> ResOk("Output")
          [] low = 5 -> ResOk("JumpIfTrue")
          [] low = 6 -> ResOk("JumpIfFalse")
          [] low = 7 -> ResOk("LessThan")
          [] low = 8 -> ResOk("Equals")
          [] low = 99 -> ResOk("Exit")
          [] OTHER -> ResErr(InvalidInstruction(low))

InstructionType_from_opcode(opcode) ==
    LET low == opcode % 100
    IN  CASE low = 1 -> ResOk("Addition")
          [] low = 2 -> ResOk("Multiplication")
          [] low = 3 -> ResOk("Input")
          [] low = 4 -> ResOk("Output")
          [] low = 5 -> ResOk("JumpIfTrue")
          [] low = 6 -> ResOk("JumpIfFalse")
          [] low = 7 -> ResOk("LessThan")
          [] low = 8 -> ResOk("Equals")
          [] low = 99 -> ResOk("Exit")
          [] OTHER -> ResErr(InvalidInstruction(opcode))

arguments_count(instruction) ==
    CASE instruction = "Addition" -> 3
      [] instruction = "Multiplication" -> 3
      [] instruction = "Input" -> 1
      [] instruction = "Output" -> 1
      [] instruction = "JumpIfTrue" -> 2
      [] instruction = "JumpIfFalse" -> 2
      [] instruction = "LessThan" -> 3
      [] instruction = "Equals" -> 3
      [] OTHER -> 0

arguments_configuration(instruction, opcode) ==
    [i \in 1..arguments_count(instruction) |->
        ParameterMode_from_opcode(opcode, i - 1)]

\* Mutant: the instruction cell itself is not counted.
code_size_arguments(instruction) == arguments_count(instruction)

code_size(instruction) == arguments_count(instruction) + 1

\* Mutant: the error carries the instruction pointer, not the address.
read_at_position_ip(m, position) ==
    IF Len(m.ram) <= position
    THEN ResErr(OutOfBound(m.ip))
    ELSE ResOk(m.ram[position + 1])

read_at_position(m, position) ==
    IF Len(m.ram) <= position
    THEN ResErr(OutOfBound(position))
    ELSE ResOk(m.ram[position + 1])

\* Mutant: a write past the end appends a cell.
write_at_position_grow(m, position, value) ==
    IF Len(m.ram) <= position
    THEN ResOk([m EXCEPT !.ram = Append(@, value)])
    ELSE ResOk([m EXCEPT !.ram[position + 1] = value])

write_at_position(m, position, value) ==
    IF Len(m.ram) <= position
    THEN ResErr(OutOfBound(position))
    ELSE ResOk([m EXCEPT !.ram[position + 1] = value])

\* InstructionType::read_instruction: the modes of all arguments are computed
\* first (a mode digit above 1 panics), then the argument cells are read in
\* order and the first failing read is returned.
InstructionType_read_instruction(instruction, m) ==
    LET first == read_at_position(m, m.ip)
    IN  IF first.tag # "Ok" THEN first
        ELSE
        LET config == arguments_configuration(instruction, AsUsize(first.val))
            n == Len(config)
            missing == {i \in 0..(n - 1) :
                            read_at_position(m, m.ip + i + 1).tag # "Ok"}
        IN  IF \E i \in 1..n : config[i] = "unimplemented" THEN ResPanic
            ELSE IF missing # {}
            THEN read_at_position(m, m.ip + Min(missing) + 1)
            ELSE ResOk([instruction |-> instruction,
                        arguments |->
                          [i \in 1..n |->
                            [value |-> read_at_position(m, m.ip + i).val,
                             parameter_mode |-> config[i],
                             argument_position |-> m.ip + i]]])

\* IntMachine::read_instruction.  val of an Ok result is the pair of the
\* decoded context and the machine with its ip advanced.
IntMachine_read_instruction(m) ==
    IF Len(m.ram) <= m.ip THEN ResErr(OutOfBound(m.ip))
    ELSE
    LET instruction == InstructionType_from_opcode(AsUsize(m.ram[m.ip + 1]))
    IN  IF instruction.tag # "Ok" THEN instruction
        ELSE IF instruction.val = "Exit" THEN ResErr(Exiting)
        ELSE
        LET result == InstructionType_read_instruction(instruction.val, m)
        IN  IF result.tag # "Ok" THEN result
            ELSE ResOk([ctx |-> result.val,
                        m |-> [m EXCEPT !.ip = m.ip + code_size(result.val.instruction)]])

\* Mutant: a successful decode leaves the pointer behind the instruction.
Decoder_advance(m) ==
    LET r == IntMachine_read_instruction(m)
    IN  [result |-> IF r.tag = "Ok" THEN ResOk(r.val.ctx) ELSE r,
         machine |-> IF r.tag = "Ok" THEN r.val.m ELSE m]

\* The decoder as IntMachine::read_instruction calls it: the bounds check of
\* the pointer, from_opcode, the halt signal, InstructionType::read_instruction.
\* It borrows the machine immutably (&IntMachine, and nothing is assigned up
\* to line 179): the machine after the call is the machine before it.
Decoder(m) ==
    LET result ==
          IF Len(m.ram) <= m.ip THEN ResErr(OutOfBound(m.ip))
          ELSE
          LET instruction == InstructionType_from_opcode(AsUsize(m.ram[m.ip + 1]))
          IN  IF instruction.tag # "Ok" THEN instruction
              ELSE IF instruction.val = "Exit" THEN ResErr(Exiting)
              ELSE InstructionType_read_instruction(instruction.val, m)
    IN  [result |-> result, machine |-> m]

get_value(argument, m) ==
    IF argument.parameter_mode = "Immediate"
    THEN ResOk(argument.value)
    ELSE read_at_position(m, AsUsize(argument.value))

\* Mutant: the value of the argument is the address in both modes.
write_value_addr(argument, m, value) ==
    write_at_position(m, AsUsize(argument.value), value)

\* Mutant: in immediate mode the value of the argument is the address too,
\* and the argument cell is written as well.
write_value_both(argument, m, value) ==
    IF argument.parameter_mode = "Immediate"
    THEN LET w == write_at_position(m, AsUsize(argument.value), value)
         IN  IF w.tag # "Ok" THEN w
             ELSE write_at_position(w.val, argument.argument_position, value)
    ELSE write_at_position(m, AsUsize(argument.value), value)

write_value(argument, m, value) ==
    IF argument.parameter_mode = "Immediate"
    THEN write_at_position(m, argument.argument_position, value)
    ELSE write_at_position(m, AsUsize(argument.value), value)

-----------------------------------------------------------------------------
(* Execution: one iteration of the loop of IntMachine::run *)

IntMachine_new(ram) == [ip |-> 0, ram |-> ram, output_values |-> <<>>]

\* The outcome of one loop iteration: the machine and the remaining
\* input_values after it, and whether the loop goes on, run returns ret, or
\* the process panics.
Continue(m, input_values) ==
    [m |-> m, input_values |-> input_values, ctl |-> "Continue", ret |-> RetNone]
Return(m, input_values, ret) ==
    [m |-> m, input_values |-> input_values, ctl |-> "Return", ret |-> ret]
Panic(m, input_values) ==
    [m |-> m, input_values |-> input_values, ctl |-> "Panic", ret |-> RetPanic]

\* Mutant: the two results are exchanged.
ExitReturn_swapped(m, fr) ==
    IF fr.ram_dump THEN RetExit(m.output_values) ELSE RetExit(m.ram)

\* The end of run, after the loop: Exit with the memory or the outputs.
ExitReturn(m, fr) ==
    IF fr.ram_dump THEN RetExit(m.ram) ELSE RetExit(m.output_values)

\* Each arm of the match: the get_value calls in order, then the write or the
\* jump; each ? returns the error at once.
\* Mutant: the first operand is stored in the result cell before the second
\* operand is read.
ExecAddition_partial(m, ctx, fr) ==
    LET value_a == get_value(ctx.arguments[1], m)
        value_b == get_value(ctx.arguments[2], m)
    IN  IF value_a.tag # "Ok" THEN Return(m, fr.input_values, RetErr(value_a.err))
        ELSE
        LET early == write_value(ctx.arguments[3], m, value_a.val)
            kept == IF early.tag = "Ok" THEN early.val ELSE m
        IN  IF value_b.tag # "Ok"
            THEN Return(kept, fr.input_values, RetErr(value_b.err))
            ELSE
            LET w == write_value(ctx.arguments[3], m, value_a.val + value_b.val)
            IN  IF w.tag # "Ok" THEN Return(m, fr.input_values, RetErr(w.err))
                ELSE Continue(w.val, fr.input_values)

ExecAddition(m, ctx, fr) ==
    LET value_a == get_value(ctx.arguments[1], m)
        value_b == get_value(ctx.arguments[2], m)
    IN  IF value_a.tag # "Ok" THEN Return(m, fr.input_values, RetErr(value_a.err))
        ELSE IF value_b.tag # "Ok" THEN Return(m, fr.input_values, RetErr(value_b.err))
        ELSE
        LET w == write_value(ctx.arguments[3], m, value_a.val + value_b.val)
        IN  IF w.tag # "Ok" THEN Return(m, fr.input_values, RetErr(w.err))
            ELSE Continue(w.val, fr.input_values)

\* Mutant: the product is replaced by the sum.
ExecMultiplication_add(m, ctx, fr) ==
    LET value_a == get_value(ctx.arguments[1], m)
        value_b == get_value(ctx.arguments[2], m)
    IN  IF value_a.tag # "Ok" THEN Return(m, fr.input_values, RetErr(value_a.err))
        ELSE IF value_b.tag # "Ok" THEN Return(m, fr.input_values, RetErr(value_b.err))
        ELSE
        LET w == write_value(ctx.arguments[3], m, value_a.val + value_b.val)
        IN  IF w.tag # "Ok" THEN Return(m, fr.input_values, RetErr(w.err))
            ELSE Continue(w.val, fr.input_values)

ExecMultiplication(m, ctx, fr) ==
    LET value_a == get_value(ctx.arguments[1], m)
        value_b == get_value(ctx.arguments[2], m)
    IN  IF value_a.tag # "Ok" THEN Return(m, fr.input_values, RetErr(value_a.err))
        ELSE IF value_b.tag # "Ok" THEN Return(m, fr.input_values, RetErr(value_b.err))
        ELSE
        LET w == write_value(ctx.arguments[3], m, value_a.val * value_b.val)
        IN  IF w.tag # "Ok" THEN Return(m, fr.input_values, RetErr(w.err))
            ELSE Continue(w.val, fr.input_values)

\* Mutant: the comparison is <= instead of <.
ExecLessThan_le(m, ctx, fr) ==
    LET value_a == get_value(ctx.arguments[1], m)
        value_b == get_value(ctx.arguments[2], m)
    IN  IF value_a.tag # "Ok" THEN Return(m, fr.input_values, RetErr(value_a.err))
        ELSE IF value_b.tag # "Ok" THEN Return(m, fr.input_values, RetErr(value_b.err))
        ELSE
        LET w == write_value(ctx.arguments[3], m, IF value_a.val <= value_b.val THEN 1 ELSE 0)
        IN  IF w.tag # "Ok" THEN Return(m, fr.input_values, RetErr(w.err))
            ELSE Continue(w.val, fr.input_values)

ExecLessThan(m, ctx, fr) ==
    LET value_a == get_value(ctx.arguments[1], m)
        value_b == get_value(ctx.arguments[2], m)
    IN  IF value_a.tag # "Ok" THEN Return(m, fr.input_values, RetErr(value_a.err))
        ELSE IF value_b.tag # "Ok" THEN Return(m, fr.input_values, RetErr(value_b.err))
        ELSE
        LET w == write_value(ctx.arguments[3], m, IF value_a.val < value_b.val THEN 1 ELSE 0)
        IN  IF w.tag # "Ok" THEN Return(m, fr.input_values, RetErr(w.err))
            ELSE Continue(w.val, fr.input_values)

\* Mutant: equals compares magnitudes.
ExecEquals_magnitude(m, ctx, fr) ==
    LET value_a == get_value(ctx.arguments[1], m)
        value_b == get_value(ctx.arguments[2], m)
    IN  IF value_a.tag # "Ok" THEN Return(m, fr.input_values, RetErr(value_a.err))
        ELSE IF value_b.tag # "Ok" THEN Return(m, fr.input_values, RetErr(value_b.err))
        ELSE
        LET w == write_value(ctx.arguments[3], m,
                             IF value_a.val * value_a.val = value_b.val * value_b.val
                             THEN 1 ELSE 0)
        IN  IF w.tag # "Ok" THEN Return(m, fr.input_values, RetErr(w.err))
            ELSE Continue(w.val, fr.input_values)

ExecEquals(m, ctx, fr) ==
    LET value_a == get_value(ctx.arguments[1], m)
        value_b == get_value(ctx.arguments[2], m)
    IN  IF value_a.tag # "Ok" THEN Return(m, fr.input_values, RetErr(value_a.err))
        ELSE IF value_b.tag # "Ok" THEN Return(m, fr.input_values, RetErr(value_b.err))
        ELSE
        LET w == write_value(ctx.arguments[3], m, IF value_a.val = value_b.val THEN 1 ELSE 0)
        IN  IF w.tag # "Ok" THEN Return(m, fr.input_values, RetErr(w.err))
            ELSE Continue(w.val, fr.input_values)

\* Mutant: the value is taken from the back of input_values (pop).
ExecInput_pop(m, ctx, fr) ==
    IF fr.input_values = <<>> THEN Panic(m, fr.input_values)
    ELSE
    LET input_value == fr.input_values[Len(fr.input_values)]
        rest == SubSeq(fr.input_values, 1, Len(fr.input_values) - 1)
        w == write_value(ctx.arguments[1], m, input_value)
    IN  IF w.tag # "Ok" THEN Return(m, rest, RetErr(w.err))
        ELSE Continue(w.val, rest)

\* input_values.remove(0) panics on an empty vector.
ExecInput(m, ctx, fr) ==
    IF fr.input_values = <<>> THEN Panic(m, fr.input_values)
    ELSE
    LET input_value == Head(fr.input_values)
        rest == Tail(fr.input_values)
        w == write_value(ctx.arguments[1], m, input_value)
    IN  IF w.tag # "Ok" THEN Return(m, rest, RetErr(w.err))
        ELSE Continue(w.val, rest)

\* Mutant: with break_at_output the value is returned without being pushed.
ExecOutput_nopush(m, ctx, fr) ==
    LET value == get_value(ctx.arguments[1], m)
    IN  IF value.tag # "Ok" THEN Return(m, fr.input_values, RetErr(value.err))
        ELSE IF fr.break_at_output
        THEN Return(m, fr.input_values, RetOutput(value.val))
        ELSE Continue([m EXCEPT !.output_values = Append(@, value.val)],
                      fr.input_values)

\* Mutant: with break_at_output the raw operand is returned, not its value.
ExecOutput_raw(m, ctx, fr) ==
    LET value == get_value(ctx.arguments[1], m)
    IN  IF value.tag # "Ok" THEN Return(m, fr.input_values, RetErr(value.err))
        ELSE
        LET pushed == [m EXCEPT !.output_values = Append(@, value.val)]
        IN  IF fr.break_at_output
            THEN Return(pushed, fr.input_values,
                        RetOutput(ctx.arguments[1].value))
            ELSE Continue(pushed, fr.input_values)

\* Mutant: the output replaces the sequence.
ExecOutput_replace(m, ctx, fr) ==
    LET value == get_value(ctx.arguments[1], m)
    IN  IF value.tag # "Ok" THEN Return(m, fr.input_values, RetErr(value.err))
        ELSE
        LET pushed == [m EXCEPT !.output_values = <<value.val>>]
        IN  IF fr.break_at_output
            THEN Return(pushed, fr.input_values, RetOutput(value.val))
            ELSE Continue(pushed, fr.input_values)

ExecOutput(m, ctx, fr) ==
    LET value == get_value(ctx.arguments[1], m)
    IN  IF value.tag # "Ok" THEN Return(m, fr.input_values, RetErr(value.err))
        ELSE
        LET pushed == [m EXCEPT !.output_values = Append(@, value.val)]
        IN  IF fr.break_at_output
            THEN Return(pushed, fr.input_values, RetOutput(value.val))
            ELSE Continue(pushed, fr.input_values)

\* Mutant: only a positive value counts as true.
ExecJumpIfTrue_positive(m, ctx, fr) ==
    LET value == get_value(ctx.arguments[1], m)
        new_ip == get_value(ctx.arguments[2], m)
    IN  IF value.tag # "Ok" THEN Return(m, fr.input_values, RetErr(value.err))
        ELSE IF new_ip.tag # "Ok" THEN Return(m, fr.input_values, RetErr(new_ip.err))
        ELSE IF value.val > 0
        THEN Continue([m EXCEPT !.ip = AsUsize(new_ip.val)], fr.input_values)
        ELSE Continue(m, fr.input_values)

ExecJumpIfTrue(m, ctx, fr) ==
    LET value == get_value(ctx.arguments[1], m)
        new_ip == get_value(ctx.arguments[2], m)
    IN  IF value.tag # "Ok" THEN Return(m, fr.input_values, RetErr(value.err))
        ELSE IF new_ip.tag # "Ok" THEN Return(m, fr.input_values, RetErr(new_ip.err))
        ELSE IF value.val # 0
        THEN Continue([m EXCEPT !.ip = AsUsize(new_ip.val)], fr.input_values)
        ELSE Continue(m, fr.input_values)

\* Mutant: jump-if-false tests the condition of jump-if-true.
ExecJumpIfFalse_copy(m, ctx, fr) ==
    LET value == get_value(ctx.arguments[1], m)
        new_ip == get_value(ctx.arguments[2], m)
    IN  IF value.tag # "Ok" THEN Return(m, fr.input_values, RetErr(value.err))
        ELSE IF new_ip.tag # "Ok" THEN Return(m, fr.input_values, RetErr(new_ip.err))
        ELSE IF value.val # 0
        THEN Continue([m EXCEPT !.ip = AsUsize(new_ip.val)], fr.input_values)
        ELSE Continue(m, fr.input_values)

ExecJumpIfFalse(m, ctx, fr) ==
    LET value == get_value(ctx.arguments[1], m)
        new_ip == get_value(ctx.arguments[2], m)
    IN  IF value.tag # "Ok" THEN Return(m, fr.input_values, RetErr(value.err))
        ELSE IF new_ip.tag # "Ok" THEN Return(m, fr.input_values, RetErr(new_ip.err))
        ELSE IF value.val = 0
        THEN Continue([m EXCEPT !.ip = AsUsize(new_ip.val)], fr.input_values)
        ELSE Continue(m, fr.input_values)

\* The match of run on the decoded instruction; m already has its ip advanced.
Execute(m, ctx, fr) ==
    CASE ctx.instruction = "Addition" -> ExecAddition(m, ctx, fr)
      [] ctx.instruction = "Multiplication" -> ExecMultiplication(m, ctx, fr)
      [] ctx.instruction = "Input" -> ExecInput(m, ctx, fr)
      [] ctx.instruction = "Output" -> ExecOutput(m, ctx, fr)
      [] ctx.instruction = "JumpIfTrue" -> ExecJumpIfTrue(m, ctx, fr)
      [] ctx.instruction = "JumpIfFalse" -> ExecJumpIfFalse(m, ctx, fr)
      [] ctx.instruction = "LessThan" -> ExecLessThan(m, ctx, fr)
      [] ctx.instruction = "Equals" -> ExecEquals(m, ctx, fr)
      [] OTHER -> Return(m, fr.input_values, ExitReturn(m, fr))

\* Mutant: Err(Exiting) is returned by ? like any other error.
RunIteration_surface(m, fr) ==
    LET instruction_ctx == IntMachine_read_instruction(m)
    IN  CASE instruction_ctx.tag = "Panic" -> Panic(m, fr.input_values)
          [] instruction_ctx.tag = "Err" ->
                Return(m, fr.input_values, RetErr(instruction_ctx.err))
          [] OTHER -> Execute(instruction_ctx.val.m, instruction_ctx.val.ctx, fr)

\* Mutant: the halt instruction is stepped over before run returns.
RunIteration_overhalt(m, fr) ==
    LET instruction_ctx == IntMachine_read_instruction(m)
    IN  CASE instruction_ctx.tag = "Panic" -> Panic(m, fr.input_values)
          [] instruction_ctx.tag = "Err" ->
                IF instruction_ctx.err = Exiting
                THEN Return([m EXCEPT !.ip = m.ip + 1], fr.input_values,
                            ExitReturn(m, fr))
                ELSE Return(m, fr.input_values, RetErr(instruction_ctx.err))
          [] OTHER -> Execute(instruction_ctx.val.m, instruction_ctx.val.ctx, fr)

\* Mutant: a failed decode leaves the pointer one cell further.
RunIteration_overfault(m, fr) ==
    LET instruction_ctx == IntMachine_read_instruction(m)
    IN  CASE instruction_ctx.tag = "Panic" -> Panic(m, fr.input_values)
          [] instruction_ctx.tag = "Err" ->
                IF instruction_ctx.err = Exiting
                THEN Return(m, fr.input_values, ExitReturn(m, fr))
                ELSE Return([m EXCEPT !.ip = m.ip + 1], fr.input_values,
                            RetErr(instruction_ctx.err))
          [] OTHER -> Execute(instruction_ctx.val.m, instruction_ctx.val.ctx, fr)

\* One iteration: read_instruction; Err(Exiting) breaks the loop, any other
\* error is returned by ?, otherwise the instruction is executed.
RunIteration(m, fr) ==
    LET instruction_ctx == IntMachine_read_instruction(m)
    IN  CASE instruction_ctx.tag = "Panic" -> Panic(m, fr.input_values)
          [] instruction_ctx.tag = "Err" ->
                IF instruction_ctx.err = Exiting
                THEN Return(m, fr.input_values, ExitReturn(m, fr))
                ELSE Return(m, fr.input_values, RetErr(instruction_ctx.err))
          [] OTHER -> Execute(instruction_ctx.val.m, instruction_ctx.val.ctx, fr)

-----------------------------------------------------------------------------
(* The interpreter of day05: the decoder and the arms of run are those of    *)
(* day07 (the text of the two files is the same there); the instance holds   *)
(* one input_value that every Input instruction reads, there is no           *)
(* break_at_output, and run consumes the machine.                            *)

Day05_new(ram, input_value) ==
    [ip |-> 0, ram |-> ram, input_value |-> input_value, output_values |-> <<>>]

Day05_ExecInput(m, ctx, fr) ==
    LET input_value == m.input_value
        w == write_value(ctx.arguments[1], m, input_value)
    IN  IF w.tag # "Ok" THEN Return(m, fr.input_values, RetErr(w.err))
        ELSE Continue(w.val, fr.input_values)

Day05_ExecOutput(m, ctx, fr) ==
    LET value == get_value(ctx.arguments[1], m)
    IN  IF value.tag # "Ok" THEN Return(m, fr.input_values, RetErr(value.err))
        ELSE Continue([m EXCEPT !.output_values = Append(@, value.val)],
                      fr.input_values)

\* Ok(self.ram) or Ok(self.output_values); Ok(v) is written RetExit(v).
Day05_ExitReturn(m, fr) ==
    IF fr.ram_dump THEN RetExit(m.ram) ELSE RetExit(m.output_values)

Day05_Execute(m, ctx, fr) ==
    CASE ctx.instruction = "Addition" -> ExecAddition(m, ctx, fr)
      [] ctx.instruction = "Multiplication" -> ExecMultiplication(m, ctx, fr)
      [] ctx.instruction = "Input" -> Day05_ExecInput(m, ctx, fr)
      [] ctx.instruction = "Output" -> Day05_ExecOutput(m, ctx, fr)
      [] ctx.instruction = "JumpIfTrue" -> ExecJumpIfTrue(m, ctx, fr)
      [] ctx.instruction = "JumpIfFalse" -> ExecJumpIfFalse(m, ctx, fr)
      [] ctx.instruction = "LessThan" -> ExecLessThan(m, ctx, fr)
      [] ctx.instruction = "Equals" -> ExecEquals(m, ctx, fr)
      [] OTHER -> Return(m, fr.input_values, Day05_ExitReturn(m, fr))

Day05_RunIteration(m, fr) ==
    LET instruction_ctx == IntMachine_read_instruction(m)
    IN  CASE instruction_ctx.tag = "Panic" -> Panic(m, fr.input_values)
          [] instruction_ctx.tag = "Err" ->
                IF instruction_ctx.err = Exiting
                THEN Return(m, fr.input_values, Day05_ExitReturn(m, fr))
                ELSE Return(m, fr.input_values, RetErr(instruction_ctx.err))
          [] OTHER ->
                Day05_Execute(instruction_ctx.val.m, instruction_ctx.val.ctx, fr)

-----------------------------------------------------------------------------
(* The interpreter of day02: memory of u64, add, multiply and halt, no       *)
(* parameter modes.  The cells of the model are small, so u64 + and * do     *)
(* not overflow.                                                             *)

Day02_new(ram) == [ip |-> 0, ram |-> ram]

Day02_from_opcode(opcode) ==
    CASE opcode = 1 -> ResOk("Addition")
      [] opcode = 2 -> ResOk("Multiplication")
      [] opcode = 99 -> ResOk("Exit")
      [] OTHER -> ResErr(InvalidInstruction(opcode))

\* The two arguments are read through their operand cells, in order, each
\* read bounds-checked; result_position is self.ram[self.ip + 3], an index
\* that panics past the end.
Day02_read_instruction(m) ==
    IF Len(m.ram) <= m.ip THEN ResErr(OutOfBound(m.ip))
    ELSE
    LET instruction == Day02_from_opcode(m.ram[m.ip + 1])
    IN  IF instruction.tag # "Ok" THEN instruction
        ELSE IF instruction.val = "Exit" THEN ResErr(Exiting)
        ELSE
        LET p1 == read_at_position(m, m.ip + 1)
            a1 == IF p1.tag = "Ok" THEN read_at_position(m, p1.val) ELSE p1
            p2 == read_at_position(m, m.ip + 2)
            a2 == IF p2.tag = "Ok" THEN read_at_position(m, p2.val) ELSE p2
        IN  IF a1.tag # "Ok" THEN a1
            ELSE IF a2.tag # "Ok" THEN a2
            ELSE IF Len(m.ram) <= m.ip + 3 THEN ResPanic
            ELSE ResOk([ctx |-> [instruction |-> instruction.val,
                                 arguments |-> <<a1.val, a2.val>>,
                                 result_position |-> m.ram[m.ip + 4]],
                        m |-> [m EXCEPT !.ip = m.ip + 4]])

\* One iteration of the loop of day02's run; Ok(self.ram) is RetExit(ram).
Day02_RunIteration(m) ==
    LET instruction_ctx == Day02_read_instruction(m)
    IN  CASE instruction_ctx.tag = "Panic" -> Panic(m, <<>>)
          [] instruction_ctx.tag = "Err" ->
                IF instruction_ctx.err = Exiting
                THEN Return(m, <<>>, RetExit(m.ram))
                ELSE Return(m, <<>>, RetErr(instruction_ctx.err))
          [] OTHER ->
                LET ctx == instruction_ctx.val.ctx
                    value == IF ctx.instruction = "Addition"
                             THEN ctx.arguments[1] + ctx.arguments[2]
                             ELSE ctx.arguments[1] * ctx.arguments[2]
                    w == write_at_position(instruction_ctx.val.m,
                                           ctx.result_position, value)
                IN  IF w.tag # "Ok"
                    THEN Return(instruction_ctx.val.m, <<>>, RetErr(w.err))
                    ELSE Continue(w.val, <<>>)

-----------------------------------------------------------------------------
(* Bounds and the programs and inputs the model draws from *)

MaxCalls == 1          \* run calls on the instance of Spec
MaxSessionCalls == 2   \* run calls on the instance of SpecSession
MaxInputs == 2         \* length of the input_values of one call
MaxBlocks == 3         \* instructions before the halt in a session program
MaxOutputs == 3        \* outputs after which an instance of SpecEquiv stops
MaxCell == 1200        \* cell magnitude after which it stops
MaxDecodes == 2        \* decoder calls in a row on the instance of SpecDecode
MaxPhase == 4          \* largest phase setting given to the chain program
MaxAmplificators == 2  \* instances of a job on one of the short programs
MaxImage == 5          \* cells of a memory image given to day02 and day07
MaxFixtureInput == 12  \* magnitude of the input value of a fixture run
MaxArgs == 3           \* the largest arguments_count

\* The input_values of a call: n distinct values, so that their order shows.
Inputs(n) == [k \in 1..n |-> 70 + k]
InputLists == {Inputs(n) : n \in 0..MaxInputs}

SeqsUpTo(S, n) == UNION {[1..k -> S] : k \in 0..n}

\* Values at the instruction pointer: every operation with every combination
\* of the mode digits 0 and 1, mode digits above 1, halt, values that are no
\* operation, and negative values (-513 and -1611 are cast to values that end
\* in 103 and 0005).
ModeWords(op, n) ==
    {op + 100 * d0 + 1000 * d1 + 10000 * d2 :
        d0 \in 0..1,
        d1 \in (IF n > 1 THEN 0..1 ELSE {0}),
        d2 \in (IF n > 2 THEN 0..1 ELSE {0})}

HeadWords ==
    UNION {ModeWords(op, 3) : op \in {1, 2, 7, 8}}
    \cup UNION {ModeWords(op, 2) : op \in {5, 6}}
    \cup UNION {ModeWords(op, 1) : op \in {3, 4}}
    \cup {201, 2002, 20001, 305, 204, 903}
    \cup {99, 1099, 0, 9, 10, 50, 98, 100, 199, 1100, 11111}
    \cup {-1, -513, -40515, -99, -1611}

\* Operand cells: zero (also the address of the instruction itself), an
\* address that lies in the tail or past the end, a negative value.
OperandVals == {-1, 0, 5}

\* What follows the first instruction.
Tails == {<<>>, <<4, 0, 99>>}

\* The parameter-mode program of test_instructions.
ModeFixture == <<1002, 4, 3, 4, 33>>

\* Programs of Spec: one instruction word, up to MaxArgs operand cells (an
\* instruction may lack operand cells), and a tail; and the fixture.
Programs ==
    {<<w>> \o ops \o tail :
        w \in HeadWords, ops \in SeqsUpTo(OperandVals, MaxArgs), tail \in Tails}
    \cup {ModeFixture}

\* Programs of SpecSession: up to MaxBlocks input and output instructions
\* (one of them faulting), then halt.
Blocks == {<<3, 0>>, <<103, 5>>, <<4, 0>>, <<104, 5>>, <<4, -1>>}

RECURSIVE Flatten(_)
Flatten(ss) == IF ss = <<>> THEN <<>> ELSE Head(ss) \o Flatten(Tail(ss))

SessionPrograms ==
    {Flatten(bs) \o <<99>> : bs \in SeqsUpTo(Blocks, MaxBlocks)}

\* Programs of SpecEquiv: outputs, an addition that changes what a later
\* output reads, a jump, a faulting output; and a loop that counts down.
EquivBlocks ==
    {<<104, 5>>, <<4, 0>>, <<4, 1>>, <<1001, 1, 3, 1>>, <<1105, 1, 5>>, <<4, -1>>}

CountDown == <<104, 5, 1001, 10, -1, 10, 1005, 10, 0, 99, 2>>

EquivPrograms ==
    {Flatten(bs) \o <<99>> : bs \in SeqsUpTo(EquivBlocks, MaxBlocks)}
    \cup {CountDown}

-----------------------------------------------------------------------------
(* The state machine *)

\* A run call: its arguments, what is left of input_values, and (history) the
\* input_values as passed and the number of Input instructions executed.
NoFrame ==
    [active |-> FALSE, ram_dump |-> FALSE, break_at_output |-> FALSE,
     input_values |-> <<>>, supplied |-> <<>>, reads |-> 0]

NoLast ==
    [instruction |-> "none", arguments |-> <<>>, ip0 |-> 0, ram0 |-> <<>>,
     out0 |-> <<>>, in0 |-> <<>>, in1 |-> <<>>, queue0 |-> <<>>,
     ctl |-> "none", ret |-> RetNone, call |-> 0,
     ram_dump |-> FALSE, break_at_output |-> FALSE, supplied |-> <<>>,
     reads |-> 0, prev |-> RetNone, straight |-> 0]

\* n fresh instances of one program.
\* No call of run_amplificator_job: its arguments and locals, and (history)
\* the run calls it has made.
NoJob ==
    [state |-> "none", amplificator_inputs |-> <<>>, break_at_output |-> FALSE,
     signal |-> 0, index |-> 0, first_run |-> FALSE, running |-> FALSE,
     result |-> RetNone, invocations |-> <<>>]

InitWith(n, programs) ==
    /\ code \in programs
    /\ machines = [i \in 1..n |-> IntMachine_new(code)]
    /\ frames = [i \in 1..n |-> NoFrame]
    /\ rets = [i \in 1..n |-> RetNone]
    /\ lasts = [i \in 1..n |-> NoLast]
    /\ pending = [i \in 1..n |-> <<>>]
    /\ ncalls = [i \in 1..n |-> 0]
    /\ collected = [i \in 1..n |-> <<>>]
    /\ aborted = FALSE
    /\ decoded = [i \in 1..n |-> <<>>]
    /\ job = NoJob

Idle == ~aborted /\ \A i \in DOMAIN frames : ~frames[i].active

\* machine.run(ram_dump, break_at_output, input_values) is entered.  (What
\* the caller does to its own variables, job, is the caller's to say.)
Call(i, ram_dump, break_at_output, input_values) ==
    /\ Idle
    /\ frames' = [frames EXCEPT ![i] =
                    [active |-> TRUE, ram_dump |-> ram_dump,
                     break_at_output |-> break_at_output,
                     input_values |-> input_values,
                     supplied |-> input_values, reads |-> 0]]
    /\ ncalls' = [ncalls EXCEPT ![i] = @ + 1]
    /\ pending' = [pending EXCEPT ![i] =
                     (IF rets[i].kind = "Output" THEN @ ELSE <<>>) \o input_values]
    /\ UNCHANGED <<machines, rets, lasts, collected, aborted, decoded, code>>

\* The instruction a loop iteration decoded, for the history record.
Decoded(m) ==
    LET r == IntMachine_read_instruction(m)
    IN  IF r.tag = "Ok" THEN r.val.ctx
        ELSE [instruction |-> IF r.tag = "Panic" THEN "panic"
                              ELSE IF r.err = Exiting THEN "Exit" ELSE "fault",
              arguments |-> <<>>]

\* The iteration with outcome o executed a jump and the jump was taken.
JumpIsTaken(m, ctx, o) ==
    /\ ctx.instruction \in {"JumpIfTrue", "JumpIfFalse"}
    /\ o.ctl = "Continue"
    /\ LET value == get_value(ctx.arguments[1], m)
       IN  IF ctx.instruction = "JumpIfTrue" THEN value.val # 0
           ELSE value.val = 0

\* (History) the instructions the current run call of instance i has decoded
\* since it was entered or last took a jump, the iteration with outcome o
\* included.
Straight(i, m, ctx, o) ==
    IF JumpIsTaken(m, ctx, o) THEN 0
    ELSE (IF lasts[i].call = ncalls[i] THEN lasts[i].straight ELSE 0)
         + (IF ctx.instruction \in {"fault", "panic"} THEN 0 ELSE 1)

\* Mutant: the instances share one memory.
Step_shared(i) ==
    /\ ~aborted
    /\ frames[i].active
    /\ LET m == machines[i]
           fr == frames[i]
           o == RunIteration(m, fr)
           ctx == Decoded(m)
           read == Len(o.input_values) < Len(fr.input_values)
       IN  /\ machines' = [j \in DOMAIN machines |->
                            IF j = i THEN o.m
                            ELSE [machines[j] EXCEPT !.ram = o.m.ram]]
           /\ frames' = [frames EXCEPT ![i] =
                          [fr EXCEPT !.input_values =
                                        IF o.ctl = "Continue"
                                        THEN o.input_values ELSE <<>>,
                                     !.active = (o.ctl = "Continue"),
                                     !.reads = IF read THEN @ + 1 ELSE @]]
           /\ rets' = IF o.ctl = "Continue" THEN rets
                      ELSE [rets EXCEPT ![i] = o.ret]
           /\ aborted' = (o.ctl = "Panic")
           /\ collected' = IF o.ret.kind = "Output"
                           THEN [collected EXCEPT ![i] = @ \o o.ret.val]
                           ELSE collected
           /\ pending' = IF read /\ pending[i] # <<>>
                         THEN [pending EXCEPT ![i] = Tail(@)]
                         ELSE pending
           /\ lasts' = [lasts EXCEPT ![i] =
                          [instruction |-> ctx.instruction,
                           arguments |-> ctx.arguments,
                           ip0 |-> m.ip, ram0 |-> m.ram,
                           out0 |-> m.output_values,
                           in0 |-> fr.input_values, in1 |-> o.input_values,
                           queue0 |-> pending[i],
                           ctl |-> o.ctl, ret |-> o.ret, call |-> ncalls[i],
                           ram_dump |-> fr.ram_dump,
                           break_at_output |-> fr.break_at_output,
                           supplied |-> fr.supplied,
                           reads |-> IF read THEN fr.reads + 1 ELSE fr.reads,
                           prev |-> rets[i],
                           straight |-> Straight(i, m, ctx, o)]]
           /\ UNCHANGED <<ncalls, decoded, code, job>>

\* One iteration of the loop of run on instance i.
Step(i) ==
    /\ ~aborted
    /\ frames[i].active
    /\ LET m == machines[i]
           fr == frames[i]
           o == RunIteration(m, fr)
           ctx == Decoded(m)
           read == Len(o.input_values) < Len(fr.input_values)
       IN  /\ machines' = [machines EXCEPT ![i] = o.m]
           /\ frames' = [frames EXCEPT ![i] =
                          [fr EXCEPT !.input_values =
                                        IF o.ctl = "Continue"
                                        THEN o.input_values ELSE <<>>,
                                     !.active = (o.ctl = "Continue"),
                                     !.reads = IF read THEN @ + 1 ELSE @]]
           /\ rets' = IF o.ctl = "Continue" THEN rets
                      ELSE [rets EXCEPT ![i] = o.ret]
           /\ aborted' = (o.ctl = "Panic")
           /\ collected' = IF o.ret.kind = "Output"
                           THEN [collected EXCEPT ![i] = @ \o o.ret.val]
                           ELSE collected
           /\ pending' = IF read /\ pending[i] # <<>>
                         THEN [pending EXCEPT ![i] = Tail(@)]
                         ELSE pending
           /\ lasts' = [lasts EXCEPT ![i] =
                          [instruction |-> ctx.instruction,
                           arguments |-> ctx.arguments,
                           ip0 |-> m.ip, ram0 |-> m.ram,
                           out0 |-> m.output_values,
                           in0 |-> fr.input_values, in1 |-> o.input_values,
                           queue0 |-> pending[i],
                           ctl |-> o.ctl, ret |-> o.ret, call |-> ncalls[i],
                           ram_dump |-> fr.ram_dump,
                           break_at_output |-> fr.break_at_output,
                           supplied |-> fr.supplied,
                           reads |-> IF read THEN fr.reads + 1 ELSE fr.reads,
                           prev |-> rets[i],
                           straight |-> Straight(i, m, ctx, o)]]
           /\ UNCHANGED <<ncalls, decoded, code, job>>

\* A driver that calls run on instance i at most max times, with any
\* arguments.
AnyCall(i, max) ==
    /\ ncalls[i] < max
    /\ \E ram_dump \in BOOLEAN, break_at_output \in BOOLEAN,
          input_values \in InputLists :
            Call(i, ram_dump, break_at_output, input_values)
    /\ UNCHANGED job

\* One instance, one instruction of every kind.
Init == InitWith(1, Programs)

Next ==
    \E i \in DOMAIN machines :
        \/ AnyCall(i, MaxCalls)
        \/ Step(i)

Spec == Init /\ [][Next]_vars

\* One instance called several times on an input/output program.
InitSession == InitWith(1, SessionPrograms)

NextSession ==
    \E i \in DOMAIN machines :
        \/ AnyCall(i, MaxSessionCalls)
        \/ Step(i)

SpecSession == InitSession /\ [][NextSession]_vars

\* Two fresh instances of one program.  Instance 1 is run with
\* break_at_output again and again, while it returns Output; instance 2 is
\* run once without it.  No call passes any input.  An instance that has
\* emitted more than MaxOutputs values, or holds a cell larger than MaxCell,
\* is not stepped further (a program may loop for ever).
InitEquiv == InitWith(2, EquivPrograms)

SuspendCall ==
    /\ rets[1].kind \in {"None", "Output"}
    /\ ncalls[1] <= MaxOutputs
    /\ \E ram_dump \in BOOLEAN : Call(1, ram_dump, TRUE, <<>>)
    /\ UNCHANGED job

WholeCall ==
    /\ ncalls[2] = 0
    /\ Call(2, FALSE, FALSE, <<>>)
    /\ UNCHANGED job

EquivStep ==
    \E i \in DOMAIN machines :
        /\ Len(machines[i].output_values) <= MaxOutputs
        /\ \A k \in 1..Len(machines[i].ram) :
              machines[i].ram[k] \in (-MaxCell)..MaxCell
        /\ Step(i)

NextEquiv == SuspendCall \/ WholeCall \/ EquivStep

SpecEquiv == InitEquiv /\ [][NextEquiv]_vars

\* One instance that is run (at most MaxCalls calls) and then, between or
\* after its run calls, decoded up to MaxDecodes times in a row at its
\* current pointer; nothing is executed once decoding has begun.
InitDecode == InitWith(1, Programs)

DecodeCall(i) ==
    /\ Idle
    /\ Len(decoded[i]) < MaxDecodes
    /\ LET d == Decoder(machines[i])
       IN  /\ decoded' = [decoded EXCEPT ![i] =
                            Append(@, [before |-> machines[i],
                                       result |-> d.result,
                                       after |-> d.machine])]
           /\ machines' = [machines EXCEPT ![i] = d.machine]
           /\ aborted' = (d.result.tag = "Panic")
    /\ UNCHANGED <<frames, rets, lasts, pending, ncalls, collected, code, job>>

RunBeforeDecode(i) ==
    /\ decoded[i] = <<>>
    /\ AnyCall(i, MaxCalls)

NextDecode ==
    \E i \in DOMAIN machines :
        \/ RunBeforeDecode(i)
        \/ Step(i)
        \/ DecodeCall(i)

SpecDecode == InitDecode /\ [][NextDecode]_vars

-----------------------------------------------------------------------------
(* The fixtures of test_instructions, run by the three interpreters.         *)

AddFixture == <<1, 0, 0, 0, 99>>
MulFixture == <<2, 3, 0, 3, 99>>
SquareFixture == <<2, 4, 4, 5, 99, 0>>
SelfModFixture == <<1, 1, 1, 4, 99, 5, 6, 0, 99>>
AddMulFixtures == {AddFixture, MulFixture, SquareFixture, SelfModFixture}

EqualsPosition == <<3, 9, 8, 9, 10, 9, 4, 9, 99, -1, 8>>
LessThanPosition == <<3, 9, 7, 9, 10, 9, 4, 9, 99, -1, 8>>
EqualsImmediate == <<3, 3, 1108, -1, 8, 3, 4, 3, 99>>
LessThanImmediate == <<3, 3, 1107, -1, 8, 3, 4, 3, 99>>
JumpPosition == <<3, 12, 6, 12, 15, 1, 13, 14, 13, 4, 13, 99, -1, 0, 1, 9>>
JumpImmediate == <<3, 3, 1105, -1, 9, 1101, 0, 0, 12, 4, 12, 99, 1>>
ThreeWay ==
    <<3, 21, 1008, 21, 8, 20, 1005, 20, 22, 107, 8, 21, 20, 1006, 20, 31, 1106,
      0, 36, 98, 0, 0, 1002, 21, 125, 20, 4, 20, 1105, 1, 46, 104, 999, 1105,
      1, 46, 1101, 1000, 1, 20, 4, 20, 1105, 1, 46, 98, 99>>

FixturePrograms ==
    AddMulFixtures
    \cup {ModeFixture, EqualsPosition, LessThanPosition, EqualsImmediate,
          LessThanImmediate, JumpPosition, JumpImmediate, ThreeWay}

FixtureInputs == (-MaxFixtureInput)..MaxFixtureInput

\* Instance 1 is the machine of day07, instance 2 that of day05 (it holds the
\* input value), and for the add/multiply programs instance 3 is the machine
\* of day02, all three made from the same program.
InitFixtures ==
    /\ code \in FixturePrograms
    /\ \E x \in FixtureInputs :
          machines =
            IF code \in AddMulFixtures
            THEN <<IntMachine_new(code), Day05_new(code, x), Day02_new(code)>>
            ELSE <<IntMachine_new(code), Day05_new(code, x)>>
    /\ frames = [i \in DOMAIN machines |-> NoFrame]
    /\ rets = [i \in DOMAIN machines |-> RetNone]
    /\ lasts = [i \in DOMAIN machines |-> NoLast]
    /\ pending = [i \in DOMAIN machines |-> <<>>]
    /\ ncalls = [i \in DOMAIN machines |-> 0]
    /\ collected = [i \in DOMAIN machines |-> <<>>]
    /\ aborted = FALSE
    /\ decoded = [i \in DOMAIN machines |-> <<>>]
    /\ job = NoJob

\* run_machine of day07: machine.run(ram_dump, false, input_value).
FixtureCall ==
    /\ ncalls[1] = 0
    /\ \E ram_dump \in BOOLEAN :
          Call(1, ram_dump, FALSE, <<machines[2].input_value>>)
    /\ UNCHANGED job

\* run_machine of day05: machine.run(ram_dump).
Day05_Call ==
    /\ ncalls[2] = 0
    /\ \E ram_dump \in BOOLEAN : Call(2, ram_dump, FALSE, <<>>)
    /\ UNCHANGED job

\* run_machine of day02: machine.run(), which returns the memory.
Day02_Call ==
    /\ 3 \in DOMAIN machines
    /\ ncalls[3] = 0
    /\ Call(3, TRUE, FALSE, <<>>)
    /\ UNCHANGED job

\* The outcome o of one loop iteration of instance i of day05 or day02.
Iterated(i, o, ctx) ==
    /\ machines' = [machines EXCEPT ![i] = o.m]
    /\ frames' = [frames EXCEPT ![i].active = (o.ctl = "Continue")]
    /\ rets' = IF o.ctl = "Continue" THEN rets ELSE [rets EXCEPT ![i] = o.ret]
    /\ aborted' = (o.ctl = "Panic")
    /\ lasts' = [lasts EXCEPT ![i] =
                   [NoLast EXCEPT !.instruction = ctx.instruction,
                                  !.ip0 = machines[i].ip,
                                  !.ram0 = machines[i].ram,
                                  !.ctl = o.ctl, !.ret = o.ret,
                                  !.call = ncalls[i],
                                  !.ram_dump = frames[i].ram_dump]]
    /\ UNCHANGED <<pending, ncalls, collected, decoded, code, job>>

Day05_Step ==
    /\ ~aborted
    /\ frames[2].active
    /\ Iterated(2, Day05_RunIteration(machines[2], frames[2]),
                Decoded(machines[2]))

Day02_Decoded(m) ==
    LET r == Day02_read_instruction(m)
    IN  [instruction |-> IF r.tag = "Ok" THEN r.val.ctx.instruction
                         ELSE IF r.tag = "Panic" THEN "panic"
                         ELSE IF r.err = Exiting THEN "Exit" ELSE "fault"]

Day02_Step ==
    /\ ~aborted
    /\ 3 \in DOMAIN machines
    /\ frames[3].active
    /\ Iterated(3, Day02_RunIteration(machines[3]), Day02_Decoded(machines[3]))

NextFixtures ==
    \/ FixtureCall
    \/ Step(1)
    \/ Day05_Call
    \/ Day05_Step
    \/ Day02_Call
    \/ Day02_Step

SpecFixtures == InitFixtures /\ [][NextFixtures]_vars

-----------------------------------------------------------------------------
(* day02 beside day07: instance 1 is the day07 interpreter called with      *)
(* ram_dump set and no input, instance 3 the day02 interpreter, on the same  *)
(* memory image of small non-negative values.                                *)

ImageCells == {0, 1, 2, 5, 99}
Images == UNION {[1..n -> ImageCells] : n \in 0..MaxImage}

InitMinimal ==
    /\ code \in Images
    /\ machines = [i \in {1, 3} |->
                     IF i = 1 THEN IntMachine_new(code) ELSE Day02_new(code)]
    /\ frames = [i \in DOMAIN machines |-> NoFrame]
    /\ rets = [i \in DOMAIN machines |-> RetNone]
    /\ lasts = [i \in DOMAIN machines |-> NoLast]
    /\ pending = [i \in DOMAIN machines |-> <<>>]
    /\ ncalls = [i \in DOMAIN machines |-> 0]
    /\ collected = [i \in DOMAIN machines |-> <<>>]
    /\ aborted = FALSE
    /\ decoded = [i \in DOMAIN machines |-> <<>>]
    /\ job = NoJob

\* machine.run(true, false, vec![]) of day07.
RamDumpCall ==
    /\ ncalls[1] = 0
    /\ Call(1, TRUE, FALSE, <<>>)
    /\ UNCHANGED job

NextMinimal == RamDumpCall \/ Step(1) \/ Day02_Call \/ Day02_Step

SpecMinimal == InitMinimal /\ [][NextMinimal]_vars

-----------------------------------------------------------------------------
(* run_amplificator_job (day07).  The instances are built before the first   *)
(* run call; job holds the arguments and locals of the function, the         *)
(* position of its for loop (index) and (history) the run calls it made.     *)

Part1Program ==
    <<3, 15, 3, 16, 1002, 16, 10, 16, 1, 16, 15, 15, 4, 15, 99, 0, 0>>
Part2ProgramA ==
    <<3, 26, 1001, 26, -4, 26, 3, 27, 1002, 27, 2, 27, 1, 27, 26, 27, 4, 27,
      1001, 28, -1, 28, 1005, 28, 6, 99, 0, 0, 5>>
Part2ProgramB ==
    <<3, 52, 1001, 52, -5, 52, 3, 53, 1, 52, 56, 54, 1007, 54, 5, 55, 1005,
      55, 26, 1001, 54, -5, 54, 1105, 1, 12, 1, 53, 54, 53, 1008, 54, 0, 55,
      1001, 55, 1, 55, 2, 53, 55, 53, 4, 53, 1001, 56, -1, 56, 1005, 56, 6,
      99, 0, 0, 0, 0, 10>>

\* Short programs: no output; the phase; the signal plus one, then the phase;
\* an output from outside the memory.
ShortPrograms ==
    {<<99>>,
     <<3, 0, 4, 0, 99>>,
     <<3, 0, 3, 1, 101, 1, 1, 1, 4, 1, 4, 0, 99>>,
     <<3, 0, 4, 9, 99>>}

\* The (code, amplificator_inputs) arguments of the jobs.
Jobs ==
    {<<Part1Program, p>> : p \in [1..5 -> 0..MaxPhase]}
    \cup {<<Part2ProgramA, <<9, 8, 7, 6, 5>> >>,
          <<Part2ProgramB, <<9, 7, 8, 5, 6>> >>}
    \cup {<<c, p>> : c \in ShortPrograms,
                     p \in UNION {[1..n -> 0..1] : n \in 1..MaxAmplificators}}

JobOk(signal) == [kind |-> "Ok", val |-> <<signal>>]

InitAmp ==
    \E j \in Jobs, break_at_output \in BOOLEAN :
        /\ code = j[1]
        /\ machines = [i \in 1..Len(j[2]) |-> IntMachine_new(code)]
        /\ frames = [i \in DOMAIN machines |-> NoFrame]
        /\ rets = [i \in DOMAIN machines |-> RetNone]
        /\ lasts = [i \in DOMAIN machines |-> NoLast]
        /\ pending = [i \in DOMAIN machines |-> <<>>]
        /\ ncalls = [i \in DOMAIN machines |-> 0]
        /\ collected = [i \in DOMAIN machines |-> <<>>]
        /\ aborted = FALSE
        /\ decoded = [i \in DOMAIN machines |-> <<>>]
        /\ job = [NoJob EXCEPT !.state = "loop",
                               !.amplificator_inputs = j[2],
                               !.break_at_output = break_at_output,
                               !.index = 1,
                               !.first_run = break_at_output,
                               !.running = break_at_output]

\* Mutant: the signal before the phase.
JobInputValues_swapped(j) ==
    IF ~j.break_at_output \/ j.first_run
    THEN <<j.signal, j.amplificator_inputs[j.index]>>
    ELSE <<j.signal>>

\* The input_values of the next run call.
JobInputValues(j) ==
    IF ~j.break_at_output \/ j.first_run
    THEN <<j.amplificator_inputs[j.index], j.signal>>
    ELSE <<j.signal>>

\* Mutant: first_run stays set after the first round.
Advance_first(j) ==
    IF j.index < Len(j.amplificator_inputs)
    THEN [j EXCEPT !.state = "loop", !.index = @ + 1]
    ELSE IF ~j.break_at_output
    THEN [j EXCEPT !.state = "returned", !.result = JobOk(j.signal)]
    ELSE [j EXCEPT !.state = "loop", !.index = 1]

\* The for loop goes to its next instance; after the last one the
\* non-suspended job returns and the suspended one starts the next round.
Advance(j) ==
    IF j.index < Len(j.amplificator_inputs)
    THEN [j EXCEPT !.state = "loop", !.index = @ + 1]
    ELSE IF ~j.break_at_output
    THEN [j EXCEPT !.state = "returned", !.result = JobOk(j.signal)]
    ELSE [j EXCEPT !.state = "loop", !.index = 1, !.first_run = FALSE]

\* Mutant: the signal is not updated.
MatchOutput_stale(j, output_value) == Advance(j)

\* The arm MachineReturn::Output(output_value).
MatchOutput(j, output_value) == Advance([j EXCEPT !.signal = output_value])

\* Mutant: the suspended job goes on after a halt.
MatchExit_continue(j, output_values) ==
    IF ~j.break_at_output
    THEN Advance([j EXCEPT !.signal = Head(output_values)])
    ELSE Advance(j)

\* The arm MachineReturn::Exit(output_values), for a non-empty vector in
\* the non-suspended job.
MatchExit(j, output_values) ==
    IF ~j.break_at_output
    THEN Advance([j EXCEPT !.signal = Head(output_values)])
    ELSE [j EXCEPT !.state = "returned", !.running = FALSE,
                   !.first_run = FALSE, !.result = JobOk(j.signal)]

\* machine.run(false, break_at_output, input_values) on the instance of the
\* loop position.
JobRun ==
    /\ job.state = "loop"
    /\ Call(job.index, FALSE, job.break_at_output, JobInputValues(job))
    /\ job' = [job EXCEPT !.state = "called",
                          !.invocations =
                              Append(@, [machine |-> job.index,
                                         input_values |-> JobInputValues(job)])]

\* The run call has returned: `?` and the match on its value.
\* output_values.remove(0) panics on an empty vector.
JobMatch ==
    /\ job.state = "called"
    /\ Idle
    /\ LET r == rets[job.index]
       IN  /\ job' = CASE r.kind = "Exit" ->
                            IF ~job.break_at_output /\ r.val = <<>>
                            THEN [job EXCEPT !.state = "aborted",
                                             !.result = RetPanic]
                            ELSE MatchExit(job, r.val)
                        [] r.kind = "Output" -> MatchOutput(job, r.val[1])
                        [] OTHER -> [job EXCEPT !.state = "returned",
                                                !.result = r]
           /\ aborted' = (r.kind = "Exit" /\ ~job.break_at_output
                           /\ r.val = <<>>)
    /\ UNCHANGED <<machines, frames, rets, lasts, pending, ncalls, collected,
                   decoded, code>>

NextAmp == JobRun \/ (\E i \in DOMAIN machines : Step(i)) \/ JobMatch

SpecAmp == InitAmp /\ [][NextAmp]_vars

-----------------------------------------------------------------------------
(* Vocabulary of the properties.  L(i) is the last loop iteration of         *)
(* instance i: the instruction it decoded, the arguments of the run call it  *)
(* belongs to, the machine before it (ip0, ram0, out0) and how it ended;     *)
(* machines[i] is the machine after it.                                      *)

Ids == DOMAIN machines
L(i) == lasts[i]
Cell(ram, a) == ram[a + 1]
InRange(ram, a) == 0 <= a /\ a < Len(ram)

Arithmetic == {"Addition", "Multiplication", "LessThan", "Equals"}
Jumps == {"JumpIfTrue", "JumpIfFalse"}

\* Operand k (0-based) of the last decoded instruction: the literal operand
\* cell in immediate mode, the cell it addresses in position mode.
RawOperand(i, k) == Cell(L(i).ram0, L(i).ip0 + 1 + k)
IsImmediate(i, k) == L(i).arguments[k + 1].parameter_mode = "Immediate"
Operand(i, k) ==
    IF IsImmediate(i, k) THEN RawOperand(i, k)
    ELSE Cell(L(i).ram0, RawOperand(i, k))

\* The cell a write operand k designates: the address it holds, or with mode
\* digit 1 the operand cell itself.
ResultCell(i, k) ==
    IF IsImmediate(i, k) THEN L(i).ip0 + 1 + k ELSE RawOperand(i, k)

Expected(instruction, a, b) ==
    CASE instruction = "Addition" -> a + b
      [] instruction = "Multiplication" -> a * b
      [] instruction = "LessThan" -> IF a < b THEN 1 ELSE 0
      [] OTHER -> IF a = b THEN 1 ELSE 0

\* C2: a successful add, multiply, less-than or equals step stores
\* operand0+operand1, operand0*operand1, (operand0<operand1 ? 1 : 0),
\* (operand0=operand1 ? 1 : 0) into the result cell, each operand being the
\* literal in immediate mode and memory[operand] in position mode; no other
\* cell and no output changes.
C2_ArithmeticStep ==
    \A i \in Ids :
        (L(i).instruction \in Arithmetic /\ L(i).ctl = "Continue") =>
            /\ machines[i].ram =
                 [L(i).ram0 EXCEPT ![ResultCell(i, 2) + 1] =
                    Expected(L(i).instruction, Operand(i, 0), Operand(i, 1))]
            /\ machines[i].output_values = L(i).out0

\* A less-than step with one position and one immediate operand has stored 1.
C2_Witness ==
    \E i \in Ids :
        /\ L(i).instruction = "LessThan" /\ L(i).ctl = "Continue"
        /\ ~IsImmediate(i, 0) /\ IsImmediate(i, 1)
        /\ Operand(i, 0) < Operand(i, 1)
        /\ Cell(machines[i].ram, ResultCell(i, 2)) = 1
        /\ machines[i].ram # L(i).ram0

JumpTaken(i) ==
    IF L(i).instruction = "JumpIfTrue" THEN Operand(i, 0) # 0
    ELSE Operand(i, 0) = 0

\* C3 as stated: a taken jump sets the instruction pointer to operand1, a
\* jump that is not taken leaves it at the pointer before the step + 3;
\* memory and outputs are unchanged.
C3_JumpSetsPointerToOperand ==
    \A i \in Ids :
        (L(i).instruction \in Jumps /\ L(i).ctl = "Continue") =>
            /\ machines[i].ip = IF JumpTaken(i) THEN Operand(i, 1)
                                ELSE L(i).ip0 + 3
            /\ machines[i].ram = L(i).ram0
            /\ machines[i].output_values = L(i).out0

\* C3 (amended): a taken jump sets the instruction pointer to operand1 when
\* operand1 >= 0 and to operand1 + 2^64 (its conversion to the unsigned
\* pointer type) when operand1 is negative; a jump that is not taken leaves
\* it at the pointer before the step + 3; memory and outputs are unchanged.
C3_JumpStep ==
    \A i \in Ids :
        (L(i).instruction \in Jumps /\ L(i).ctl = "Continue") =>
            /\ machines[i].ip =
                 IF ~JumpTaken(i) THEN L(i).ip0 + 3
                 ELSE IF Operand(i, 1) >= 0 THEN Operand(i, 1)
                 ELSE Operand(i, 1) + Two64
            /\ machines[i].ram = L(i).ram0
            /\ machines[i].output_values = L(i).out0

\* A jump-if-false was taken to the target held by a position-mode operand.
C3_Witness ==
    \E i \in Ids :
        /\ L(i).instruction = "JumpIfFalse" /\ L(i).ctl = "Continue"
        /\ JumpTaken(i) /\ ~IsImmediate(i, 1)
        /\ machines[i].ip = Operand(i, 1)
        /\ machines[i].ip # L(i).ip0 + 3

\* C4: a write-output step appends operand0 as the last output and changes
\* no memory cell; with break_at_output the call returns Output(operand0)
\* right after this step, the pointer at the following instruction and the
\* machine not halted; without it the loop goes on.  Every Output return
\* comes from such a step, so it stands for exactly one appended output.
C4_OutputStep ==
    \A i \in Ids :
        /\ (L(i).instruction = "Output" /\ L(i).ret.kind \in {"None", "Output"}) =>
              /\ machines[i].output_values = Append(L(i).out0, Operand(i, 0))
              /\ machines[i].ram = L(i).ram0
              /\ IF L(i).break_at_output
                 THEN /\ L(i).ctl = "Return"
                      /\ L(i).ret = RetOutput(Operand(i, 0))
                      /\ machines[i].ip = L(i).ip0 + 2
                      /\ ~aborted
                 ELSE L(i).ctl = "Continue"
        /\ L(i).ret.kind = "Output" =>
              /\ L(i).instruction = "Output"
              /\ L(i).break_at_output
              /\ Len(machines[i].output_values) = Len(L(i).out0) + 1
        /\ Len(collected[i]) <= Len(machines[i].output_values)

\* A suspended call has returned the value of a position-mode output.
C4_Witness ==
    \E i \in Ids :
        /\ L(i).instruction = "Output" /\ ~IsImmediate(i, 0)
        /\ rets[i].kind = "Output"
        /\ rets[i] = RetOutput(Operand(i, 0))
        /\ ~frames[i].active
        /\ machines[i].output_values = <<Operand(i, 0)>>
        /\ Operand(i, 0) # RawOperand(i, 0)

\* C5: within one run call the k-th executed read-input stores the k-th
\* element of the input list passed to the call at its write target, and
\* removes exactly one pending value.
C5_InputsFrontFirst ==
    \A i \in Ids :
        (L(i).instruction = "Input" /\ L(i).ctl = "Continue") =>
            /\ L(i).reads \in 1..Len(L(i).supplied)
            /\ Cell(machines[i].ram, ResultCell(i, 0)) =
                 L(i).supplied[L(i).reads]
            /\ Len(L(i).in1) = Len(L(i).in0) - 1
            /\ L(i).in1 = SubSeq(L(i).supplied, L(i).reads + 1,
                                 Len(L(i).supplied))

\* The second read-input of a call has stored the second value passed.
C5_Witness ==
    \E i \in Ids :
        /\ L(i).instruction = "Input" /\ L(i).ctl = "Continue"
        /\ L(i).reads = 2
        /\ Cell(machines[i].ram, ResultCell(i, 0)) = L(i).supplied[2]
        /\ L(i).supplied[2] # L(i).supplied[1]

\* C6: a read-input executed with no pending input value makes run return an
\* error value; the process is not aborted.
C6_StarvedReadReturnsError ==
    \A i \in Ids :
        (L(i).instruction = "Input" /\ L(i).in0 = <<>>) =>
            /\ ~aborted
            /\ L(i).ctl = "Return"
            /\ L(i).ret.kind \notin {"None", "Output", "Exit", "Panic"}

\* C7: the values passed to a call that returned Output and not read by it
\* stay pending: a read-input of a later call takes the oldest of them,
\* ahead of the values passed to that later call.  (pending is that queue.)
C7_UnreadInputsStayPending ==
    \A i \in Ids :
        (L(i).instruction = "Input" /\ L(i).queue0 # <<>>) =>
            /\ L(i).ctl # "Panic"
            /\ L(i).ctl = "Continue" =>
                  Cell(machines[i].ram, ResultCell(i, 0)) = Head(L(i).queue0)

\* The first decoder read or operand access of the last iteration, in
\* program order, as the addresses the instruction names: the position-mode
\* operands read, then the cell written.  A read-input with no input value
\* left does not get to its write.
Reads(i, k) == IF IsImmediate(i, k) THEN <<>> ELSE <<RawOperand(i, k)>>
Accesses(i) ==
    CASE L(i).instruction \in Arithmetic ->
            Reads(i, 0) \o Reads(i, 1) \o <<ResultCell(i, 2)>>
      [] L(i).instruction = "Input" ->
            IF L(i).in0 = <<>> THEN <<>> ELSE <<ResultCell(i, 0)>>
      [] L(i).instruction = "Output" -> Reads(i, 0)
      [] L(i).instruction \in Jumps -> Reads(i, 0) \o Reads(i, 1)
      [] OTHER -> <<>>
BadAccesses(i) ==
    {k \in 1..Len(Accesses(i)) : ~InRange(L(i).ram0, Accesses(i)[k])}
FirstBad(i) == Accesses(i)[Min(BadAccesses(i))]

\* Number of operand cells of a non-negative instruction value.
OperandCells(v) ==
    CASE v % 100 \in {1, 2, 7, 8} -> 3
      [] v % 100 \in {5, 6} -> 2
      [] v % 100 \in {3, 4} -> 1
      [] OTHER -> 0

\* C8: every memory read or write made during execution at an address outside
\* [0, memory length) makes run return OutOfBound and changes no cell (nor
\* the outputs); for an address >= memory length the error carries that
\* address.  This holds for the pointer itself, for the operand cells the
\* decoder reads, and for position-mode operands, negative ones included.
C8_OutOfBoundAccess ==
    \A i \in Ids :
        /\ (L(i).ctl # "none" /\ L(i).ip0 >= Len(L(i).ram0)) =>
              /\ L(i).ret = [kind |-> "OutOfBound", val |-> <<L(i).ip0>>]
              /\ machines[i].ram = L(i).ram0
        /\ (/\ L(i).instruction = "fault" /\ L(i).ip0 < Len(L(i).ram0)
            /\ Cell(L(i).ram0, L(i).ip0) >= 0
            /\ L(i).ip0 + OperandCells(Cell(L(i).ram0, L(i).ip0)) >= Len(L(i).ram0)) =>
              /\ L(i).ret = [kind |-> "OutOfBound", val |-> <<Len(L(i).ram0)>>]
              /\ machines[i].ram = L(i).ram0
        /\ BadAccesses(i) # {} =>
              /\ L(i).ctl = "Return"
              /\ L(i).ret.kind = "OutOfBound"
              /\ FirstBad(i) >= Len(L(i).ram0) => L(i).ret.val = <<FirstBad(i)>>
              /\ machines[i].ram = L(i).ram0
              /\ machines[i].output_values = L(i).out0

\* An addition whose second operand holds a negative address, and an output
\* whose operand addresses a cell past the end, have returned OutOfBound.
C8_Witness ==
    \E i \in Ids :
        /\ L(i).ret.kind = "OutOfBound"
        /\ machines[i].ram = L(i).ram0
        /\ \/ /\ L(i).instruction = "Addition"
              /\ BadAccesses(i) # {} /\ FirstBad(i) < 0
              /\ ~IsImmediate(i, 1) /\ RawOperand(i, 1) = FirstBad(i)
           \/ /\ L(i).instruction = "Multiplication"
              /\ BadAccesses(i) # {} /\ FirstBad(i) >= Len(L(i).ram0)
              /\ ~IsImmediate(i, 2) /\ RawOperand(i, 2) = FirstBad(i)
              /\ L(i).ret.val = <<FirstBad(i)>>

\* C9: a non-negative value v at the instruction pointer whose low two
\* decimal digits are not one of 1..8 or 99 makes run return
\* InvalidInstruction carrying v itself, whatever its higher digits.
C9_InvalidInstruction ==
    \A i \in Ids :
        (/\ L(i).ctl # "none" /\ L(i).ip0 < Len(L(i).ram0)
         /\ Cell(L(i).ram0, L(i).ip0) >= 0
         /\ Cell(L(i).ram0, L(i).ip0) % 100 \notin (1..8) \cup {99}) =>
            /\ L(i).ctl = "Return"
            /\ L(i).ret = [kind |-> "InvalidInstruction",
                           val |-> <<Cell(L(i).ram0, L(i).ip0)>>]
            /\ rets[i] = L(i).ret

\* A value with higher digits has been returned whole.
C9_Witness ==
    \E i \in Ids :
        /\ rets[i].kind = "InvalidInstruction"
        /\ rets[i].val[1] > 100
        /\ rets[i].val[1] = Cell(L(i).ram0, L(i).ip0)

\* C10: a pointer >= memory length, or an instruction one of whose operand
\* cells lies past the end of memory, makes run return OutOfBound with the
\* address of the first cell that could not be read.
C10_DecoderReadsReturnOutOfBound ==
    \A i \in Ids :
        /\ (L(i).ctl # "none" /\ L(i).ip0 >= Len(L(i).ram0)) =>
              L(i).ret = [kind |-> "OutOfBound", val |-> <<L(i).ip0>>]
        /\ (/\ L(i).ctl # "none" /\ L(i).ip0 < Len(L(i).ram0)
            /\ Cell(L(i).ram0, L(i).ip0) >= 0
            /\ L(i).ip0 + OperandCells(Cell(L(i).ram0, L(i).ip0)) >= Len(L(i).ram0)) =>
              L(i).ret = [kind |-> "OutOfBound", val |-> <<Len(L(i).ram0)>>]

\* C1: the values of the Output returns of the suspended runs of instance 1,
\* up to its Exit, are the output sequence the single run of the fresh
\* instance 2 returns.
C1_SuspendResumeEquivalence ==
    (rets[1].kind = "Exit" /\ rets[2].kind = "Exit") =>
        collected[1] = rets[2].val

\* Both have halted after two or more outputs, instance 1 over three or more
\* calls.
C1_Witness ==
    /\ rets[1].kind = "Exit" /\ rets[2].kind = "Exit"
    /\ Len(collected[1]) >= 2
    /\ ncalls[1] = Len(collected[1]) + 1
    /\ collected[1] = rets[2].val

Errors == {"OutOfBound", "InvalidInstruction"}
After(i) == machines[i]
Before(i) ==
    [ip |-> L(i).ip0, ram |-> L(i).ram0, output_values |-> L(i).out0]

\* C11: decoding the halt opcode makes run return Ok(Exit(..)), never a
\* failure; the error values run returns are OutOfBound and
\* InvalidInstruction only, never Exiting.
C11_HaltIsNotAFailure ==
    \A i \in Ids :
        /\ rets[i].kind \in {"None", "Output", "Exit", "Panic"} \cup Errors
        /\ L(i).ret.kind # "Exiting"
        /\ (/\ L(i).ctl # "none" /\ InRange(L(i).ram0, L(i).ip0)
            /\ AsUsize(Cell(L(i).ram0, L(i).ip0)) % 100 = 99) =>
              /\ L(i).ctl = "Return"
              /\ L(i).ret =
                   RetExit(IF L(i).ram_dump THEN L(i).ram0 ELSE L(i).out0)
              /\ rets[i] = L(i).ret
              /\ ~aborted

\* The halt that follows an output was decoded and run returned Exit with
\* that output.
C11_Witness ==
    \E i \in Ids :
        /\ L(i).ctl = "Return" /\ L(i).ip0 > 0
        /\ InRange(L(i).ram0, L(i).ip0)
        /\ Cell(L(i).ram0, L(i).ip0) = 99
        /\ ~L(i).ram_dump
        /\ rets[i].kind = "Exit" /\ rets[i].val # <<>>

\* C12: after a run call has returned Exit, a later run call on the instance
\* (any inputs, either mode) makes one iteration that decodes the halt again
\* and returns Exit; it executes nothing, and the instruction pointer, the
\* memory and the output sequence are unchanged.
C12_HaltedIsTerminal ==
    \A i \in Ids :
        L(i).prev.kind = "Exit" =>
            /\ L(i).instruction = "Exit"
            /\ L(i).ctl = "Return"
            /\ L(i).ret.kind = "Exit"
            /\ After(i) = Before(i)

\* A second call, with inputs and in suspend mode, on an instance that had
\* returned Exit with outputs has returned Exit.
C12_Witness ==
    \E i \in Ids :
        /\ L(i).prev.kind = "Exit" /\ L(i).call = 2
        /\ rets[i].kind = "Exit"
        /\ L(i).supplied # <<>> /\ L(i).break_at_output
        /\ After(i).output_values # <<>>
        /\ After(i) = Before(i)

\* C13: after a run call has returned OutOfBound or InvalidInstruction, a
\* later run call on the instance returns an error too and executes no
\* instruction: memory and the output sequence do not change.
C13_FaultedIsTerminal ==
    \A i \in Ids :
        L(i).prev.kind \in Errors =>
            /\ L(i).ret.kind \in Errors
            /\ After(i).ram = Before(i).ram
            /\ After(i).output_values = Before(i).output_values

\* C14: a failed decode (pointer out of bounds, invalid opcode, operand cell
\* out of bounds) returns the error and leaves the instruction pointer,
\* every memory cell and the output sequence as they were.
C14_FailedDecodeChangesNothing ==
    \A i \in Ids :
        (L(i).ctl # "none" /\
           (\/ ~InRange(L(i).ram0, L(i).ip0)
            \/ L(i).instruction = "fault")) =>
            /\ L(i).ctl = "Return"
            /\ L(i).ret.kind \in Errors
            /\ After(i) = Before(i)

\* An instruction whose first operand cell exists and whose second lies past
\* the end has returned OutOfBound with the address of the second.
C14_Witness ==
    \E i \in Ids :
        /\ L(i).instruction = "fault" /\ L(i).ret.kind = "OutOfBound"
        /\ InRange(L(i).ram0, L(i).ip0 + 1)
        /\ L(i).ret.val = <<L(i).ip0 + 2>>
        /\ After(i) = Before(i)

Executed == Arithmetic \cup Jumps \cup {"Input", "Output"}

\* The last iteration decoded an instruction and then returned an error
\* while executing it.
FaultedExecuting(i) ==
    L(i).instruction \in Executed /\ L(i).ret.kind \in Errors

\* C15: when an instruction faults while executing (an operand dereference
\* or the result write is out of bounds), every memory cell and the output
\* sequence are as they were before the instruction.
C15_NoPartialWrites ==
    \A i \in Ids :
        FaultedExecuting(i) =>
            /\ L(i).ctl = "Return"
            /\ After(i).ram = Before(i).ram
            /\ After(i).output_values = Before(i).output_values

\* An addition read its first operand from memory and then faulted on its
\* second operand, whose write target was a cell of the memory.
C15_Witness ==
    \E i \in Ids :
        /\ FaultedExecuting(i) /\ L(i).instruction = "Addition"
        /\ ~IsImmediate(i, 0) /\ InRange(L(i).ram0, RawOperand(i, 0))
        /\ ~IsImmediate(i, 1) /\ ~InRange(L(i).ram0, RawOperand(i, 1))
        /\ InRange(L(i).ram0, ResultCell(i, 2))
        /\ After(i).ram = Before(i).ram

\* C16: when an instruction faults while executing, the instruction pointer
\* still designates that instruction, and a faulting read-input has consumed
\* no input value.
C16_FaultDiscardsAllEffects ==
    \A i \in Ids :
        FaultedExecuting(i) =>
            /\ After(i).ip = Before(i).ip
            /\ L(i).instruction = "Input" => L(i).in1 = L(i).in0

\* Decimal digit k of (value at the instruction pointer, as usize) / 100.
ModeDigit(i, k) == (AsUsize(Cell(L(i).ram0, L(i).ip0)) \div Pow10(k + 2)) % 10

OperandCount(instruction) ==
    CASE instruction \in Arithmetic -> 3
      [] instruction \in Jumps -> 2
      [] instruction \in {"Input", "Output"} -> 1
      [] OTHER -> 0

ModeFixtureEnd == <<1002, 4, 3, 4, 99>>

\* C17: in every decoded instruction, operand k (below the operand count) is
\* in position mode when decimal digit k of value/100 is 0 or absent and in
\* immediate mode when it is 1, the value being the unsigned instruction
\* value the decoder is given; a write-output in the two modes emits
\* memory[operand] and the operand; and [1002,4,3,4,33] multiplies memory[4]
\* by the literal 3, ends as [1002,4,3,4,99] and halts there.
C17_ModeDigits ==
    \A i \in Ids :
        /\ L(i).instruction \in Executed =>
              \A k \in 0..(OperandCount(L(i).instruction) - 1) :
                  /\ ModeDigit(i, k) \in {0, 1}
                  /\ IsImmediate(i, k) <=> ModeDigit(i, k) = 1
        /\ (L(i).instruction = "Output" /\ L(i).ctl = "Continue") =>
              After(i).output_values =
                Append(L(i).out0,
                       IF ModeDigit(i, 0) = 1 THEN RawOperand(i, 0)
                       ELSE Cell(L(i).ram0, RawOperand(i, 0)))
        /\ (L(i).ctl # "none" /\ L(i).ip0 = 0 /\ L(i).ram0 = ModeFixture) =>
              /\ L(i).instruction = "Multiplication"
              /\ ~IsImmediate(i, 0) /\ IsImmediate(i, 1) /\ ~IsImmediate(i, 2)
              /\ After(i).ram = ModeFixtureEnd
        /\ (L(i).ctl # "none" /\ L(i).ip0 = 4 /\ L(i).ram0 = ModeFixtureEnd) =>
              rets[i] = RetExit(IF L(i).ram_dump THEN ModeFixtureEnd ELSE <<>>)

\* The fixture has run to its halt and returned its memory.
C17_Witness ==
    \E i \in Ids :
        /\ rets[i] = RetExit(ModeFixtureEnd)
        /\ L(i).ip0 = 4 /\ L(i).ram_dump

\* The operand an instruction writes through, and the value it writes.
WriteOperand(i) == IF L(i).instruction = "Input" THEN 0 ELSE 2
Written(i) ==
    IF L(i).instruction = "Input" THEN Head(L(i).in0)
    ELSE Expected(L(i).instruction, Operand(i, 0), Operand(i, 1))
Wrote(i) ==
    L(i).instruction \in Arithmetic \cup {"Input"} /\ L(i).ctl = "Continue"

\* C18 as stated: add, multiply, less-than, equals and read-input store
\* their result at memory[value of the write operand] whatever the mode
\* digit of that operand.
C18_WriteTargetIgnoresMode ==
    \A i \in Ids :
        Wrote(i) =>
            /\ InRange(L(i).ram0, RawOperand(i, WriteOperand(i)))
            /\ After(i).ram =
                 [L(i).ram0 EXCEPT ![RawOperand(i, WriteOperand(i)) + 1] =
                    Written(i)]

\* C18 (amended): the write operand is never used as a literal; the result
\* is stored at memory[value of the write operand] when its mode digit is 0
\* and in the write operand's own cell (pointer before the step + 1 + operand
\* index) when its mode digit is 1.
C18_WriteTarget ==
    \A i \in Ids :
        Wrote(i) =>
            LET k == WriteOperand(i)
                target == IF ModeDigit(i, k) = 1 THEN L(i).ip0 + 1 + k
                          ELSE RawOperand(i, k)
            IN  /\ InRange(L(i).ram0, target)
                /\ After(i).ram = [L(i).ram0 EXCEPT ![target + 1] = Written(i)]

\* An addition whose write operand has mode digit 1 and holds the address of
\* another cell has stored its result over the operand, not at that address.
C18_Witness ==
    \E i \in Ids :
        /\ Wrote(i) /\ L(i).instruction = "Addition"
        /\ ModeDigit(i, 2) = 1
        /\ InRange(L(i).ram0, RawOperand(i, 2))
        /\ RawOperand(i, 2) # L(i).ip0 + 3
        /\ Cell(After(i).ram, L(i).ip0 + 3) = Written(i)
        /\ Written(i) # RawOperand(i, 2)
        /\ Cell(After(i).ram, RawOperand(i, 2)) = Cell(L(i).ram0, RawOperand(i, 2))

\* C20: after every successfully decoded instruction that is not a taken
\* jump (executed successfully or not), the instruction pointer is its value
\* before the step + 4 for add, multiply, less-than and equals, + 2 for
\* read-input and write-output, + 3 for a jump.
C20_SequentialAdvance ==
    \A i \in Ids :
        (/\ L(i).instruction \in Executed
         /\ ~(L(i).instruction \in Jumps /\ L(i).ctl = "Continue" /\ JumpTaken(i))) =>
            After(i).ip = L(i).ip0 +
                (CASE L(i).instruction \in Arithmetic -> 4
                   [] L(i).instruction \in Jumps -> 3
                   [] OTHER -> 2)

\* A jump-if-true on a zero operand was not taken and the pointer is three
\* cells further, which is not where its second operand points.
C20_Witness ==
    \E i \in Ids :
        /\ L(i).instruction = "JumpIfTrue" /\ L(i).ctl = "Continue"
        /\ Operand(i, 0) = 0
        /\ Operand(i, 1) # L(i).ip0 + 3
        /\ After(i).ip = L(i).ip0 + 3

RECURSIVE IsSubsequence(_, _)
IsSubsequence(s, u) ==
    IF s = <<>> THEN TRUE
    ELSE IF u = <<>> THEN FALSE
    ELSE IF Head(s) = Head(u) THEN IsSubsequence(Tail(s), Tail(u))
    ELSE IsSubsequence(s, Tail(u))

\* C21: a run that reaches halt returns Exit carrying the whole memory as it
\* is then if ram_dump is true, and otherwise the output sequence of the
\* instance, which holds (in order) the values earlier suspend-mode calls
\* have already returned as well as those emitted by the other calls.
C21_ExitCarriesMemoryOrOutputs ==
    \A i \in Ids :
        L(i).instruction = "Exit" =>
            /\ L(i).ret.kind = "Exit"
            /\ L(i).ret.val = IF L(i).ram_dump THEN After(i).ram
                              ELSE After(i).output_values
            /\ rets[i] = L(i).ret
            /\ IsSubsequence(collected[i], After(i).output_values)

\* A second call has returned Exit with two outputs, the first of which the
\* first call (in suspend mode) had already returned.
C21_Witness ==
    \E i \in Ids :
        /\ L(i).instruction = "Exit" /\ ~L(i).ram_dump /\ L(i).call = 2
        /\ Len(rets[i].val) = 2 /\ rets[i].kind = "Exit"
        /\ collected[i] = <<rets[i].val[1]>>
        /\ rets[i].val[1] # rets[i].val[2]
        /\ rets[i].val # After(i).ram

\* Fixture runs: the input value, and the one run call of instance i is over.
FixtureInput == machines[2].input_value
Returned(i) == i \in Ids /\ ncalls[i] = 1 /\ ~frames[i].active

\* The run of instance i halted having emitted exactly the values out, and
\* returned them unless it was asked for the memory.
Outputs(i, out) ==
    /\ ~aborted
    /\ rets[i].kind = "Exit"
    /\ machines[i].output_values = out
    /\ ~frames[i].ram_dump => rets[i] = RetExit(out)

\* C22: for every input value x, negative ones included, the two equals
\* programs output [1] if x = 8 and [0] otherwise, and the two less-than
\* programs output [1] if x < 8 and [0] otherwise (day07 and day05).
C22_ComparisonFixtures ==
    \A i \in {1, 2} :
        Returned(i) =>
            /\ code \in {EqualsPosition, EqualsImmediate} =>
                  Outputs(i, <<IF FixtureInput = 8 THEN 1 ELSE 0>>)
            /\ code \in {LessThanPosition, LessThanImmediate} =>
                  Outputs(i, <<IF FixtureInput < 8 THEN 1 ELSE 0>>)

\* Both interpreters have answered [0] to the input -8 of the position-mode
\* equals program.
C22_Witness ==
    /\ code = EqualsPosition /\ FixtureInput = -8
    /\ rets[1] = RetExit(<<0>>) /\ rets[2] = RetExit(<<0>>)
    /\ Returned(1) /\ Returned(2)

\* C23: for every input value x the two jump programs run to halt and output
\* [0] if x = 0 and [1] for every other x, negative ones included.
C23_JumpFixtures ==
    \A i \in {1, 2} :
        (Returned(i) /\ code \in {JumpPosition, JumpImmediate}) =>
            Outputs(i, <<IF FixtureInput = 0 THEN 0 ELSE 1>>)

\* Both interpreters have answered [1] to a negative input of the
\* immediate-mode jump program.
C23_Witness ==
    /\ code = JumpImmediate /\ FixtureInput < 0
    /\ rets[1] = RetExit(<<1>>) /\ rets[2] = RetExit(<<1>>)
    /\ Returned(1) /\ Returned(2)

\* C24: the 47-cell program run with one input x halts with output [999] if
\* x < 8, [1000] if x = 8 and [1001] if x > 8.
C24_ThreeWayFixture ==
    \A i \in {1, 2} :
        (Returned(i) /\ code = ThreeWay) =>
            Outputs(i, <<CASE FixtureInput < 8 -> 999
                           [] FixtureInput = 8 -> 1000
                           [] OTHER -> 1001>>)

\* The day07 interpreter has answered each of the three values, here 1001.
C24_Witness ==
    /\ code = ThreeWay /\ FixtureInput > 8
    /\ Returned(1) /\ rets[1] = RetExit(<<1001>>)
    /\ Returned(2) /\ rets[2] = RetExit(<<1001>>)

SelfModFixtureEnd == <<30, 1, 1, 4, 2, 5, 6, 0, 99>>

\* The run of instance i halted with memory ram, and returned it if asked to.
EndsAs(i, ram) ==
    /\ ~aborted
    /\ rets[i].kind = "Exit"
    /\ machines[i].ram = ram
    /\ frames[i].ram_dump => rets[i] = RetExit(ram)

\* C25: every step decodes the memory as it is then: in the day07, day05 and
\* day02 interpreters [1,1,1,4,99,5,6,0,99] reaches cell 4 holding the 2 its
\* first instruction wrote there, executes it as a multiply and ends as
\* [30,1,1,4,2,5,6,0,99]; [1,0,0,0,99] ends as [2,0,0,0,99] and [2,3,0,3,99]
\* as [2,3,0,6,99].
C25_DecodesCurrentMemory ==
    \A i \in Ids :
        /\ (code = SelfModFixture /\ L(i).ctl # "none" /\ L(i).ip0 = 4) =>
              /\ Cell(L(i).ram0, 4) = 2 /\ Cell(code, 4) = 99
              /\ L(i).instruction = "Multiplication"
              /\ L(i).ctl = "Continue"
              /\ Cell(machines[i].ram, 0) = 30
        /\ Returned(i) =>
              /\ code = SelfModFixture => EndsAs(i, SelfModFixtureEnd)
              /\ code = AddFixture => EndsAs(i, <<2, 0, 0, 0, 99>>)
              /\ code = MulFixture => EndsAs(i, <<2, 3, 0, 6, 99>>)

\* The day07 and the day02 interpreter have both returned the final memory
\* of the self-modifying program.
C25_Witness ==
    /\ code = SelfModFixture
    /\ Returned(1) /\ rets[1] = RetExit(SelfModFixtureEnd)
    /\ Returned(3) /\ rets[3] = RetExit(SelfModFixtureEnd)

\* run_amplificator_job: the number of instances, the run calls made so far,
\* and the instance and the round of the k-th run call of a round-robin.
Amplificators == Len(job.amplificator_inputs)
Invocations == job.invocations
Turn(k) == ((k - 1) % Amplificators) + 1
Round(k) == ((k - 1) \div Amplificators) + 1
Chain == job.state # "none" /\ ~job.break_at_output
Feedback == job.state # "none" /\ job.break_at_output

\* C26: the non-suspended job runs the instances once each, in list order:
\* the k-th run call is on instance k with break_at_output unset and inputs
\* [phase_k, signal], signal being 0 for the first instance and the first
\* output of instance k-1 otherwise; a job that returns a value has run every
\* instance and returns the first output of the last one, which for the
\* chain program is 10000*p0 + 1000*p1 + 100*p2 + 10*p3 + p4.
C26_ChainRun ==
    Chain =>
        /\ Len(Invocations) <= Amplificators
        /\ \A k \in 1..Len(Invocations) :
              /\ Invocations[k].machine = k
              /\ ncalls[k] = 1
              /\ ~frames[k].break_at_output /\ ~frames[k].ram_dump
              /\ frames[k].supplied = Invocations[k].input_values
              /\ k > 1 => /\ rets[k - 1].kind = "Exit"
                          /\ machines[k - 1].output_values # <<>>
              /\ Invocations[k].input_values =
                     <<job.amplificator_inputs[k],
                       IF k = 1 THEN 0 ELSE machines[k - 1].output_values[1]>>
        /\ \A i \in Ids : i > Len(Invocations) => ncalls[i] = 0
        /\ (job.state = "returned" /\ job.result.kind = "Ok") =>
              /\ Len(Invocations) = Amplificators
              /\ machines[Amplificators].output_values # <<>>
              /\ job.result = JobOk(machines[Amplificators].output_values[1])
        /\ (code = Part1Program /\ job.state = "returned") =>
              job.result = JobOk(10000 * job.amplificator_inputs[1]
                                 + 1000 * job.amplificator_inputs[2]
                                 + 100 * job.amplificator_inputs[3]
                                 + 10 * job.amplificator_inputs[4]
                                 + job.amplificator_inputs[5])

\* The chain program with phases [4,3,2,1,0] has returned 43210.
C26_Witness ==
    /\ Chain /\ code = Part1Program
    /\ job.amplificator_inputs = <<4, 3, 2, 1, 0>>
    /\ Len(Invocations) = 5
    /\ job.state = "returned" /\ job.result = JobOk(43210)

\* The value the k-th run call of the feedback job emitted: the output of
\* its instance in that round.
Emitted(k) == machines[Turn(k)].output_values[Round(k)]

\* C27: the suspended job makes one suspend-mode run call at a time, the k-th
\* one on instance ((k-1) mod n) + 1; the last input value of the k-th call
\* is 0 for k = 1 and otherwise the value the (k-1)-th call emitted, so the
\* first instance of a round gets what the last instance emitted in the
\* round before.
C27_RoundRobin ==
    Feedback =>
        /\ \A i \in Ids :
              frames[i].active =>
                  /\ i = Turn(Len(Invocations))
                  /\ frames[i].break_at_output /\ ~frames[i].ram_dump
                  /\ \A j \in Ids \ {i} : ~frames[j].active
        /\ \A i \in Ids :
              ncalls[i] = Cardinality({k \in 1..Len(Invocations) : Turn(k) = i})
        /\ Len(Invocations) > 0 =>
              frames[Turn(Len(Invocations))].supplied =
                  Invocations[Len(Invocations)].input_values
        /\ \A k \in 1..Len(Invocations) :
              LET input_values == Invocations[k].input_values
              IN  /\ Invocations[k].machine = Turn(k)
                  /\ input_values # <<>>
                  /\ k = 1 => input_values[Len(input_values)] = 0
                  /\ k > 1 =>
                        /\ Len(machines[Turn(k - 1)].output_values)
                               >= Round(k - 1)
                        /\ input_values[Len(input_values)] = Emitted(k - 1)

\* The first instance of five has been called for the second round with the
\* value the fifth emitted in the first.
C27_Witness ==
    /\ Feedback /\ code = Part2ProgramA
    /\ Len(Invocations) = 6
    /\ Invocations[6].machine = 1
    /\ Invocations[6].input_values = <<machines[5].output_values[1]>>
    /\ frames[1].active /\ frames[1].supplied = <<machines[5].output_values[1]>>
    /\ machines[5].output_values[1] # 0

\* C28: once a suspend-mode run call has returned Exit no instance is called
\* again and the job returns the value of the latest output any instance
\* emitted (0, the initial signal, if none did); a suspended job returns a
\* value only after an Exit; the two feedback programs of the tests return
\* 139629729 and 18216.
C28_StopsAtFirstHalt ==
    Feedback =>
        /\ \A i \in Ids :
              (rets[i].kind = "Exit" /\ ~frames[i].active) =>
                  /\ Len(Invocations) >= 1
                  /\ i = Turn(Len(Invocations))
                  /\ \A j \in Ids : ~frames[j].active
                  /\ job.state \in {"called", "returned"}
                  /\ job.state = "returned" =>
                        job.result =
                            JobOk(IF Len(Invocations) = 1 THEN 0
                                  ELSE Emitted(Len(Invocations) - 1))
        /\ (job.state = "returned" /\ job.result.kind = "Ok") =>
              rets[Turn(Len(Invocations))].kind = "Exit"
        /\ (code = Part2ProgramA /\ job.state = "returned") =>
              job.result = JobOk(139629729)
        /\ (code = Part2ProgramB /\ job.state = "returned") =>
              job.result = JobOk(18216)

\* The second feedback program has halted in a later round and the job has
\* returned 18216.
C28_Witness ==
    /\ Feedback /\ code = Part2ProgramB
    /\ Len(Invocations) > Amplificators
    /\ rets[Turn(Len(Invocations))].kind = "Exit"
    /\ job.state = "returned" /\ job.result = JobOk(18216)

\* C29: every instance starts its first run call on a copy of the program,
\* and a step changes the memory, pointer and outputs of the one instance
\* whose run call is in progress: no other instance changes, and the
\* program image of the caller never does.
C29_InstancesAreIsolated ==
    [][/\ code' = code
       /\ \A i \in DOMAIN machines :
             /\ ncalls[i] = 0 => machines[i] = IntMachine_new(code)
             /\ machines'[i] # machines[i] =>
                   /\ frames[i].active
                   /\ \A j \in DOMAIN machines \ {i} :
                         machines'[j] = machines[j]]_vars

\* Two instances of a job have both run and hold different memories, neither
\* being the program.
C29_Witness ==
    /\ job.state # "none"
    /\ \E i, j \in Ids :
          /\ ncalls[i] >= 1 /\ ncalls[j] >= 1
          /\ machines[i].ram # machines[j].ram
          /\ machines[i].ram # code /\ machines[j].ram # code
          /\ machines[i].ip # machines[j].ip

\* C30: in every step the output sequence of every instance keeps what it
\* held as a prefix; it grows, by one value, exactly in the loop iterations
\* that execute a write-output instruction, and in no other step, a new run
\* call included.
C30_OutputsAppendOnly ==
    [][\A i \in DOMAIN machines :
         LET before == machines[i].output_values
             after == machines'[i].output_values
             wrote == /\ frames[i].active
                      /\ lasts'[i] # lasts[i]
                      /\ lasts'[i].instruction = "Output"
                      /\ lasts'[i].ret.kind \notin Errors
         IN  /\ Len(after) >= Len(before)
             /\ SubSeq(after, 1, Len(before)) = before
             /\ Len(after) <= Len(before) + 1
             /\ wrote <=> Len(after) = Len(before) + 1]_vars

\* An instance holds two outputs, the second one written in its second run
\* call.
C30_Witness ==
    \E i \in Ids :
        /\ ncalls[i] = 2
        /\ Len(machines[i].output_values) = 2
        /\ L(i).call = 2 /\ L(i).instruction = "Output"
        /\ L(i).out0 = <<machines[i].output_values[1]>>

\* The value at the instruction pointer of the last iteration, as the
\* decoder is given it.
Word(i) == AsUsize(Cell(L(i).ram0, L(i).ip0))
Fetched(i) == L(i).ctl # "none" /\ InRange(L(i).ram0, L(i).ip0)

\* C31: for every value at the instruction pointer whose low two digits
\* denote one of the eight non-halt operations, mode digits 2..9 included,
\* decoding returns an instruction or a MachineError and never aborts the
\* process.
C31_DecodeNeverAborts ==
    \A i \in Ids :
        (Fetched(i) /\ Word(i) % 100 \in 1..8) =>
            /\ L(i).instruction # "panic"
            /\ L(i).ctl = "Panic" => L(i).instruction = "Input"

\* C36: a negative value at the instruction pointer is never executed as an
\* operation: run returns InvalidInstruction and memory is as it was.
C36_NegativeIsInvalid ==
    \A i \in Ids :
        (Fetched(i) /\ Cell(L(i).ram0, L(i).ip0) < 0) =>
            /\ L(i).ret.kind = "InvalidInstruction"
            /\ After(i).ram = L(i).ram0

\* Every operand the instruction reads a value through is in immediate mode
\* or holds an address inside the memory, and a read-input has a value to
\* take.
ReadsSucceed(i) ==
    /\ L(i).instruction \in Arithmetic =>
          \A k \in 0..1 :
              IsImmediate(i, k) \/ InRange(L(i).ram0, RawOperand(i, k))
    /\ L(i).instruction = "Input" => L(i).in0 # <<>>

\* C37: an add, multiply, less-than, equals or read-input whose write operand
\* has mode digit 1 and whose reads succeed stores its result in the cell of
\* that operand (pointer before the step + 1 + operand index), whatever the
\* operand holds: the step does not fail and no other cell changes; with
\* mode digit 1 no such instruction returns OutOfBound unless one of its
\* reads is out of bounds.
C37_ImmediateWriteTarget ==
    \A i \in Ids :
        (/\ L(i).instruction \in Arithmetic \cup {"Input"}
         /\ ModeDigit(i, WriteOperand(i)) = 1) =>
            LET target == L(i).ip0 + 1 + WriteOperand(i)
            IN  /\ InRange(L(i).ram0, target)
                /\ target < L(i).ip0 + OperandCount(L(i).instruction) + 1
                /\ ReadsSucceed(i) =>
                      /\ L(i).ctl = "Continue"
                      /\ After(i).ram =
                            [L(i).ram0 EXCEPT ![target + 1] = Written(i)]
                /\ ~ReadsSucceed(i) => After(i).ram = L(i).ram0
                /\ L(i).ret.kind = "OutOfBound" =>
                      /\ ~ReadsSucceed(i)
                      /\ \E k \in 0..1 :
                            /\ ~IsImmediate(i, k)
                            /\ L(i).ret.val = <<AsUsize(RawOperand(i, k))>>

\* A less-than whose write operand has mode digit 1 and holds -1, no address
\* of the memory, has stored its result over that operand.
C37_Witness ==
    \E i \in Ids :
        /\ L(i).instruction = "LessThan" /\ L(i).ctl = "Continue"
        /\ ModeDigit(i, 2) = 1
        /\ RawOperand(i, 2) = -1
        /\ Written(i) = 1
        /\ After(i).ram = [L(i).ram0 EXCEPT ![L(i).ip0 + 4] = 1]

\* C34: in the suspended job an instance is given its phase setting in its
\* first run call only, as the first of two input values, the signal being
\* the second; every later run call of the instance is given one value, the
\* signal.
C34_PhaseGivenOnce ==
    Feedback =>
        /\ \A k \in 1..Len(Invocations) :
              LET input_values == Invocations[k].input_values
                  signal == IF k = 1 THEN 0 ELSE Emitted(k - 1)
              IN  /\ Invocations[k].machine = Turn(k)
                  /\ Round(k) = 1 =>
                        input_values =
                            <<job.amplificator_inputs[Turn(k)], signal>>
                  /\ Round(k) > 1 => input_values = <<signal>>
                  /\ Len(input_values) = 2 <=> k <= Amplificators
                  /\ k = Len(Invocations) =>
                        frames[Turn(k)].supplied = input_values
        /\ \A i \in Ids :
              ncalls[i] > 0 =>
                  /\ Invocations[i].machine = i
                  /\ Invocations[i].input_values[1] =
                        job.amplificator_inputs[i]

\* An instance of the first feedback program, given <<phase, signal>> in the
\* first round, is running its third call on the signal alone, which is not
\* its phase.
C34_Witness ==
    /\ Feedback /\ code = Part2ProgramA
    /\ Len(Invocations) = 12
    /\ Invocations[2].input_values = <<8, machines[1].output_values[1]>>
    /\ Invocations[12].input_values = <<machines[1].output_values[3]>>
    /\ frames[2].active /\ frames[2].supplied = Invocations[12].input_values
    /\ ncalls[2] = 3

\* C32: in day02 an add or multiply whose two arguments are read and whose
\* third operand cell (pointer + 3) lies past the end of memory makes run
\* return OutOfBound(pointer + 3).
C32_ResultCellIsChecked ==
    (/\ 3 \in Ids /\ L(3).ctl # "none"
     /\ InRange(L(3).ram0, L(3).ip0)
     /\ Cell(L(3).ram0, L(3).ip0) \in {1, 2}
     /\ ~InRange(L(3).ram0, L(3).ip0 + 3)
     /\ \A k \in 1..2 :
           /\ InRange(L(3).ram0, L(3).ip0 + k)
           /\ InRange(L(3).ram0, Cell(L(3).ram0, L(3).ip0 + k))) =>
        /\ L(3).ctl = "Return"
        /\ L(3).ret = RetErr(OutOfBound(L(3).ip0 + 3))

\* C33: on a memory image of small non-negative values in which every
\* instruction value met is 1, 2 or 99 (day02 returns InvalidInstruction for
\* the first one that is not), day02's run and day07's run with ram_dump set
\* return the same result: the same memory, or the same error with the same
\* address.
C33_MinimalIsInstance ==
    (/\ 3 \in Ids /\ Returned(1) /\ Returned(3)
     /\ L(1).ram_dump
     /\ rets[3].kind # "InvalidInstruction"
     /\ Fetched(1) => Cell(L(1).ram0, L(1).ip0) \in {1, 2, 99}) =>
        rets[1] = rets[3]

\* The last iteration decoded an instruction and did not take a jump.
NoJumpTaken(i) ==
    /\ L(i).instruction \in Executed
    /\ ~(L(i).instruction \in Jumps /\ L(i).ctl = "Continue" /\ JumpTaken(i))

\* C35: a step that decodes an instruction and is not a taken jump
\* increases the instruction pointer by at least 2; no step changes the
\* length of the memory; and a run call decodes at most memory-length
\* instructions between two taken jumps, hence in all if it takes none, also
\* when the program writes over its own instructions.
C35_StraightRunsEnd ==
    \A i \in Ids :
        /\ Len(machines[i].ram) = Len(code)
        /\ L(i).ctl # "none" =>
              /\ Len(L(i).ram0) = Len(code)
              /\ NoJumpTaken(i) => After(i).ip >= L(i).ip0 + 2
              /\ L(i).straight <= Len(code)
              /\ L(i).straight > 0 => L(i).ip0 >= 2 * (L(i).straight - 1)
              /\ (L(i).ctl = "Continue" /\ NoJumpTaken(i)) =>
                    L(i).straight > 0

\* A run call on a program without any jump, whose first instruction wrote
\* over the operand of its second, has decoded three instructions, the
\* halt included, and returned.
C35_Witness ==
    \E i \in Ids :
        /\ code = <<1, 0, 0, 5, 4, 0, 99>>
        /\ L(i).ram0 = <<1, 0, 0, 5, 4, 2, 99>>
        /\ L(i).instruction = "Exit" /\ L(i).ip0 = 6
        /\ L(i).straight = 3
        /\ rets[i].kind = "Exit" /\ ~frames[i].active

====
